---- MODULE Spec2Model ----
(***************************************************************************)
(* Model of the safe mutation core of LLM-File-Organizer:                  *)
(*   src/src/filesystem_operations.py  SafeFilesystemOperations            *)
(*   src/src/safety_validator.py       SafetyValidator                     *)
(*   src/src/llm_interface.py          FilesystemLLM                       *)
(*                                                                         *)
(* A file name is a sequence of tokens (short strings); "." is always a    *)
(* token of its own, so pathlib's stem/suffix split is computed on tokens  *)
(* exactly as on characters.  An absolute path is a sequence of names,     *)
(* <<>> being "/".  The filesystem is a function from the absolute paths   *)
(* that exist to their entries (file with content, directory, symlink).    *)
(***************************************************************************)
EXTENDS Integers, Sequences, FiniteSets, TLC

VARIABLES
    fs,      \* the filesystem: absolute path -> entry
    clock,   \* int(time.time()), in seconds since the first call
    nops,    \* number of calls issued so far
    op,      \* the last call: its name and arguments
    res,     \* what the last call returned (or that it raised)
    pc,      \* "idle", or the position inside bulk_move_files
    bulk,    \* the locals of a running bulk_move_files
    calls,   \* the callees invoked by the last _execute_action, in order
    history  \* FilesystemLLM.conversation_history

vars == <<fs, clock, nops, op, res, pc, bulk, calls, history>>

(***************************************************************************)
(* Bounds of the model.                                                    *)
(***************************************************************************)
MaxOps == 2          \* calls issued in one behaviour
MaxBulk == 1         \* bulk_move_files calls issued in one behaviour
MaxParts == 4        \* components of a path string given to _safe_path
MaxClock == 1        \* seconds the clock may advance
CounterLimit == 2    \* the model's stand-in for the 9999 of _generate_safe_filename

(***************************************************************************)
(* Names and paths.                                                        *)
(***************************************************************************)
Dot == <<".">>
DotDot == <<".", ".">>

R == <<"r">>                 \* the sandbox directory /r
O == <<"o">>                 \* a directory outside the sandbox, /o
Root == <<R>>

A_T == <<"a", ".", "t">>
B_T == <<"b", ".", "t">>
C_T == <<"c", ".", "t">>
D == <<"d">>
E == <<"e">>
L == <<"l">>
M_T == <<"m", ".", "t">>
X == <<"x">>

NoPath == <<>>

FileEntry(c) == [kind |-> "file", content |-> c, target |-> NoPath]
DirEntry == [kind |-> "dir", content |-> "", target |-> NoPath]
LinkEntry(t) == [kind |-> "link", content |-> "", target |-> t]

Front(s) == SubSeq(s, 1, Len(s) - 1)
Last(s) == s[Len(s)]

IsPrefix(p, q) == Len(p) <= Len(q) /\ SubSeq(q, 1, Len(p)) = p

(* PurePath.is_relative_to: component-wise prefix *)
is_relative_to(p, root) == IsPrefix(root, p)

(* pathlib parsing of a path string: "." components are dropped *)
RECURSIVE ParseParts(_)
ParseParts(parts) ==
    IF parts = <<>> THEN <<>>
    ELSE IF Head(parts) = Dot THEN ParseParts(Tail(parts))
    ELSE <<Head(parts)>> \o ParseParts(Tail(parts))

(* os.path.realpath(strict=False) as used by Path.resolve: ".." pops the   *)
(* last component of what is resolved so far, a symlink is replaced by its *)
(* (absolute) target, resolved in turn; missing components are kept.       *)
RECURSIVE JoinRealPath(_, _, _)
JoinRealPath(f, path, rest) ==
    IF rest = <<>> THEN path
    ELSE LET name == Head(rest)
             t == Tail(rest)
         IN  IF name = Dot THEN JoinRealPath(f, path, t)
             ELSE IF name = DotDot
                  THEN JoinRealPath(f, IF path = <<>> THEN <<>> ELSE Front(path), t)
             ELSE LET np == Append(path, name)
                  IN  IF np \in DOMAIN f /\ f[np].kind = "link"
                      THEN JoinRealPath(f, JoinRealPath(f, <<>>, f[np].target), t)
                      ELSE JoinRealPath(f, np, t)

resolve(f, p) == JoinRealPath(f, <<>>, p)

(* Path.exists / is_dir / is_file follow symlinks *)
exists(f, p) == LET q == resolve(f, p) IN q = <<>> \/ q \in DOMAIN f
is_dir(f, p) == LET q == resolve(f, p) IN q = <<>> \/ (q \in DOMAIN f /\ f[q].kind = "dir")
is_file(f, p) == LET q == resolve(f, p) IN q \in DOMAIN f /\ f[q].kind = "file"

(* names of the entries directly inside directory p (Path.iterdir) *)
iterdir(f, p) == {q \in DOMAIN f : Len(q) = Len(p) + 1 /\ IsPrefix(p, q)}

(***************************************************************************)
(* SafeFilesystemOperations._validate_path / _safe_path                    *)
(***************************************************************************)
validate_path(f, path) == is_relative_to(resolve(f, path), Root)

(* a path string: abs tells whether it starts with "/" *)
PathStr(abs, parts) == [abs |-> abs, parts |-> parts]
Rel(parts) == PathStr(FALSE, parts)
Abs(parts) == PathStr(TRUE, parts)

(* _safe_path without line 31: the check is made on the path as written *)
safe_path_unresolved(f, ps) ==
    LET path == ParseParts(ps.parts)
        full_path == IF ps.abs THEN path ELSE Root \o path
    IN  IF is_relative_to(full_path, Root)
        THEN [ok |-> TRUE, path |-> full_path]
        ELSE [ok |-> FALSE, path |-> NoPath]

(* ok = FALSE stands for the ValueError "Path outside allowed directory" *)
safe_path(f, ps) ==
    LET path == ParseParts(ps.parts)
        full_path == IF ps.abs THEN path ELSE Root \o path
        resolved == resolve(f, full_path)
    IN  IF validate_path(f, resolved)
        THEN [ok |-> TRUE, path |-> resolved]
        ELSE [ok |-> FALSE, path |-> NoPath]

(* Path.relative_to(root); it raises ValueError unless is_relative_to(p, root) *)
relative_to(p, root) == SubSeq(p, Len(root) + 1, Len(p))

(***************************************************************************)
(* SafeFilesystemOperations._generate_safe_filename                        *)
(***************************************************************************)
Ctr(k) == " (" \o ToString(k) \o ")"
Stamp(now) == "_" \o ToString(now)

(* PurePath.suffix / stem: split at the last "." that is neither the first *)
(* nor the last character of the name                                      *)
DotAt(name) ==
    LET idx == {i \in 1..Len(name) : name[i] = "."}
    IN  IF idx = {} THEN 0 ELSE CHOOSE i \in idx : \A j \in idx : j <= i
HasSuffix(name) == 1 < DotAt(name) /\ DotAt(name) < Len(name)
suffix(name) == IF HasSuffix(name) THEN SubSeq(name, DotAt(name), Len(name)) ELSE <<>>
stem(name) == IF HasSuffix(name) THEN SubSeq(name, 1, DotAt(name) - 1) ELSE name

Candidate(original_path, k) ==
    Append(Front(original_path),
           stem(Last(original_path)) \o <<Ctr(k)>> \o suffix(Last(original_path)))

Fallback(original_path, now) ==
    Append(Front(original_path),
           stem(Last(original_path)) \o <<Stamp(now)>> \o suffix(Last(original_path)))

(* lines 45-61, the loop from a given counter on: the candidate is taken   *)
(* if it is free; otherwise the counter goes up and, past the limit, the   *)
(* timestamp name is returned as it is                                     *)
RECURSIVE safe_filename_from(_, _, _, _)
safe_filename_from(f, original_path, now, counter) ==
    IF ~exists(f, Candidate(original_path, counter))
    THEN Candidate(original_path, counter)
    ELSE IF counter + 1 > CounterLimit
    THEN Fallback(original_path, now)
    ELSE safe_filename_from(f, original_path, now, counter + 1)

(* the counter started at 2 *)
safe_filename_from_two(f, original_path, now) ==
    safe_filename_from(f, original_path, now, 2)

(* lines 38-61: counter = 1, then the loop *)
generate_safe_filename(f, original_path, now) ==
    safe_filename_from(f, original_path, now, 1)

(***************************************************************************)
(* The filesystem calls the operations make.  Each returns ok = FALSE for  *)
(* the OSError / shutil.Error the call raises, and then changes nothing.   *)
(***************************************************************************)
Out(ok, f) == [ok |-> ok, fs |-> f]

(* Path.mkdir(parents=True, exist_ok=True) *)
RECURSIVE mkdir_parents(_, _)
mkdir_parents(f, p) ==
    IF is_dir(f, p) THEN Out(TRUE, f)
    ELSE IF p \in DOMAIN f THEN Out(FALSE, f)
    ELSE LET r == mkdir_parents(f, Front(p))
         IN  IF ~r.ok THEN Out(FALSE, f)
             ELSE Out(TRUE, r.fs @@ (Append(resolve(r.fs, Front(p)), Last(p)) :> DirEntry))

Under(f, p) == {q \in DOMAIN f : IsPrefix(p, q)}

MoveTree(f, src, dst) ==
    LET moved == Under(f, src)
        keep == (DOMAIN f \ moved) \ {dst}
        To(p) == dst \o SubSeq(p, Len(src) + 1, Len(p))
        From(q) == src \o SubSeq(q, Len(dst) + 1, Len(q))
    IN  [q \in keep \cup {To(p) : p \in moved} |->
            IF IsPrefix(dst, q) THEN f[From(q)] ELSE f[q]]

(* os.rename(src, dst) on one device; src is no symlink *)
os_rename(f, src, dst) ==
    IF src \notin DOMAIN f THEN Out(FALSE, f)      \* ENOENT
    ELSE IF src = dst THEN Out(TRUE, f)
    ELSE IF ~(Front(dst) = <<>> \/ (Front(dst) \in DOMAIN f /\ f[Front(dst)].kind = "dir"))
         THEN Out(FALSE, f)                        \* ENOENT / ENOTDIR
    ELSE IF IsPrefix(src, dst) THEN Out(FALSE, f)  \* EINVAL: into itself
    ELSE IF dst \in DOMAIN f
         THEN IF f[src].kind = "dir"
              THEN IF f[dst].kind = "dir" /\ iterdir(f, dst) = {}
                   THEN Out(TRUE, MoveTree(f, src, dst))
                   ELSE Out(FALSE, f)              \* ENOTDIR / ENOTEMPTY
              ELSE IF f[dst].kind = "dir"
                   THEN Out(FALSE, f)              \* EISDIR
                   ELSE Out(TRUE, MoveTree(f, src, dst))   \* replaces dst
    ELSE Out(TRUE, MoveTree(f, src, dst))

(* shutil.move when os.rename fails: a directory that is not moved into    *)
(* itself is copied with copytree, which makes dst and its missing parents *)
(* and fails when dst exists, and is then removed; the copy of a file      *)
(* fails where the rename failed                                           *)
rename_or_copy(f, src, dst) ==
    LET renamed == os_rename(f, src, dst)
    IN  IF renamed.ok THEN renamed
        ELSE IF src \in DOMAIN f /\ f[src].kind = "dir" /\ ~IsPrefix(src, dst)
                /\ dst \notin DOMAIN f
        THEN LET made == mkdir_parents(f, Front(dst))
             IN  IF made.ok THEN Out(TRUE, MoveTree(made.fs, src, dst)) ELSE Out(FALSE, f)
        ELSE Out(FALSE, f)

(* shutil.move(src, dst): an existing directory dst receives src inside it *)
shutil_move(f, src, dst) ==
    IF is_dir(f, dst)
    THEN IF resolve(f, dst) = src
         THEN os_rename(f, src, dst)
         ELSE IF exists(f, Append(dst, Last(src)))
              THEN Out(FALSE, f)
              ELSE rename_or_copy(f, src, Append(resolve(f, dst), Last(src)))
    ELSE rename_or_copy(f, src, dst)

(***************************************************************************)
(* Results.  status is the shape of the returned dict: "error" for         *)
(* {"error": ...}, "success" for {"success": True, "message": ...},        *)
(* "items", "info", "preview", "bulk" for the dicts of the operations of   *)
(* those names; "raised" when the call raised instead of returning.        *)
(***************************************************************************)
Result(status, error, renamed, final_path) ==
    [status |-> status, error |-> error, renamed |-> renamed, final_path |-> final_path]
Error(kind) == Result("error", kind, FALSE, NoPath)
Success == Result("success", "", FALSE, NoPath)
Renamed(final_path) == Result("success", "", TRUE, final_path)
Raised(kind) == Result("raised", kind, FALSE, NoPath)
NoResult == Result("none", "", FALSE, NoPath)

Ret(f, r) == [fs |-> f, res |-> r]

(***************************************************************************)
(* SafeFilesystemOperations.move_file / move_directory                     *)
(***************************************************************************)
(* strict mode ignored: a conflict is never refused *)
never_refused(f, dst_path, auto_rename) == FALSE

(* lines 102-104 / 141-143: a conflict in strict mode *)
refused(f, dst_path, auto_rename) == exists(f, dst_path) /\ ~auto_rename

(* lines 100-122 / 139-161, common to both: conflict check, mkdir, move *)
move_checked(f, now, src_path, original_dst_path, auto_rename) ==
    IF refused(f, original_dst_path, auto_rename) THEN Ret(f, Error("destination_exists"))
    ELSE LET dst_path == IF exists(f, original_dst_path)
                         THEN generate_safe_filename(f, original_dst_path, now)
                         ELSE original_dst_path
         IN  IF ~is_relative_to(dst_path, Root) THEN Ret(f, Error("exception"))
             ELSE LET made == mkdir_parents(f, Front(dst_path))
                  IN  IF ~made.ok THEN Ret(f, Error("exception"))
                      ELSE LET mv == shutil_move(made.fs, src_path, dst_path)
                           IN  IF ~mv.ok THEN Ret(made.fs, Error("exception"))
                               ELSE IF dst_path # original_dst_path
                                    THEN Ret(mv.fs, Renamed(relative_to(dst_path, Root)))
                                    ELSE Ret(mv.fs, Success)

move_file(f, now, source, destination, auto_rename) ==
    LET src == safe_path(f, source)
        dst == safe_path(f, destination)
    IN  IF ~src.ok \/ ~dst.ok THEN Ret(f, Error("exception"))
        ELSE IF ~exists(f, src.path) THEN Ret(f, Error("source_missing"))
        ELSE IF is_dir(f, src.path) THEN Ret(f, Error("use_move_directory"))
        ELSE move_checked(f, now, src.path, dst.path, auto_rename)

(* the kind of the source not looked at *)
move_of_any_kind(f, now, source, destination, auto_rename) ==
    LET src == safe_path(f, source)
        dst == safe_path(f, destination)
    IN  IF ~src.ok \/ ~dst.ok THEN Ret(f, Error("exception"))
        ELSE IF ~exists(f, src.path) THEN Ret(f, Error("source_missing"))
        ELSE move_checked(f, now, src.path, dst.path, auto_rename)

move_directory(f, now, source, destination, auto_rename) ==
    LET src == safe_path(f, source)
        dst == safe_path(f, destination)
    IN  IF ~src.ok \/ ~dst.ok THEN Ret(f, Error("exception"))
        ELSE IF ~exists(f, src.path) THEN Ret(f, Error("source_missing"))
        ELSE IF ~is_dir(f, src.path) THEN Ret(f, Error("use_move_file"))
        ELSE move_checked(f, now, src.path, dst.path, auto_rename)

(***************************************************************************)
(* rename_file, create_directory, remove_empty_directory                   *)
(***************************************************************************)
rename_file(f, old_name, new_name) ==
    LET old == safe_path(f, old_name)
        new == safe_path(f, new_name)
    IN  IF ~old.ok \/ ~new.ok THEN Ret(f, Error("exception"))
        ELSE IF ~exists(f, old.path) THEN Ret(f, Error("source_missing"))
        ELSE IF exists(f, new.path) THEN Ret(f, Error("target_exists"))
        ELSE LET mv == os_rename(f, old.path, new.path)
             IN  IF mv.ok THEN Ret(mv.fs, Success) ELSE Ret(f, Error("exception"))

(* Path.mkdir(parents=True, exist_ok=False) on a path that does not exist *)
(* mkdir with exist_ok: an existing directory is a success *)
create_or_keep_directory(f, path) ==
    LET target == safe_path(f, path)
    IN  IF ~target.ok THEN Ret(f, Error("exception"))
        ELSE LET made == mkdir_parents(f, target.path)
             IN  IF made.ok THEN Ret(made.fs, Success) ELSE Ret(f, Error("already_exists"))

create_directory(f, path) ==
    LET target == safe_path(f, path)
    IN  IF ~target.ok THEN Ret(f, Error("exception"))
        ELSE IF exists(f, target.path) THEN Ret(f, Error("already_exists"))
        ELSE LET made == mkdir_parents(f, target.path)
             IN  IF made.ok THEN Ret(made.fs, Success) ELSE Ret(f, Error("exception"))

Remove(f, paths) == [q \in DOMAIN f \ paths |-> f[q]]

(* a removal that succeeds whatever is or is not at the path *)
rmdir_unchecked(f, p) == Out(TRUE, Remove(f, {p}))

(* Path.rmdir: the path is a directory and it is empty *)
rmdir(f, p) ==
    IF p \in DOMAIN f /\ f[p].kind = "dir" /\ iterdir(f, p) = {}
    THEN Out(TRUE, Remove(f, {p}))
    ELSE Out(FALSE, f)

(* the emptiness check of line 211 dropped and the tree removed *)
remove_directory_tree(f, path) ==
    LET target == safe_path(f, path)
    IN  IF ~target.ok THEN Ret(f, Error("exception"))
        ELSE IF ~exists(f, target.path) THEN Ret(f, Error("missing"))
        ELSE IF ~is_dir(f, target.path) THEN Ret(f, Error("not_a_directory"))
        ELSE Ret(Remove(f, Under(f, target.path)), Success)

remove_empty_directory(f, path) ==
    LET target == safe_path(f, path)
    IN  IF ~target.ok THEN Ret(f, Error("exception"))
        ELSE IF ~exists(f, target.path) THEN Ret(f, Error("missing"))
        ELSE IF ~is_dir(f, target.path) THEN Ret(f, Error("not_a_directory"))
        ELSE IF iterdir(f, target.path) # {} THEN Ret(f, Error("not_empty"))
        ELSE LET removed == rmdir(f, target.path)
             IN  IF removed.ok THEN Ret(removed.fs, Success) ELSE Ret(f, Error("exception"))

(***************************************************************************)
(* list_directory, get_file_info, get_move_preview: they change nothing    *)
(***************************************************************************)
(* _safe_path is called outside any try: its ValueError leaves the method *)
list_directory(f, path) ==
    LET target == safe_path(f, path)
    IN  IF ~target.ok THEN Raised("ValueError")
        ELSE IF ~exists(f, target.path) THEN Error("missing")
        ELSE IF ~is_dir(f, target.path) THEN Error("not_a_directory")
        ELSE Result("items", "", FALSE, NoPath)

get_file_info(f, path) ==
    LET target == safe_path(f, path)
    IN  IF ~target.ok THEN Error("exception")
        ELSE IF ~exists(f, target.path) THEN Error("missing")
        ELSE Result("info", "", FALSE, relative_to(target.path, Root))

(* final_path carries auto_rename_to, renamed carries conflict *)
get_move_preview(f, now, source, destination) ==
    LET src == safe_path(f, source)
        dst == safe_path(f, destination)
    IN  IF ~src.ok \/ ~dst.ok THEN Error("exception")
        ELSE IF ~exists(f, src.path) THEN Error("source_missing")
        ELSE IF exists(f, dst.path)
             THEN LET safe == generate_safe_filename(f, dst.path, now)
                  IN  IF ~is_relative_to(safe, Root) THEN Error("exception")
                      ELSE Result("preview", "", TRUE, relative_to(safe, Root))
        ELSE IF ~exists(f, Front(dst.path)) /\ ~is_relative_to(Front(dst.path), Root)
             THEN Error("exception")
        ELSE Result("preview", "", FALSE, NoPath)

(***************************************************************************)
(* Path.glob(pattern) from Root.  A pattern is a path string whose names   *)
(* may hold the token "*"; "**" is not among the modelled patterns.        *)
(***************************************************************************)
Star == "*"
HasWildcard(np) == \E i \in 1..Len(np) : np[i] = Star

(* fnmatch of a name against one pattern component *)
RECURSIVE Match(_, _)
Match(np, name) ==
    IF np = <<>> THEN name = <<>>
    ELSE IF Head(np) = Star
         THEN \E k \in 0..Len(name) : Match(Tail(np), SubSeq(name, k + 1, Len(name)))
         ELSE name # <<>> /\ Head(name) = Head(np) /\ Match(Tail(np), Tail(name))

(* _WildcardSelector / _PreciseSelector; base may pass through symlinks *)
RECURSIVE select_from(_, _, _)
select_from(f, base, parts) ==
    IF parts = <<>> THEN {base}
    ELSE LET np == Head(parts)
             dironly == Tail(parts) # <<>>
             listed == {Append(base, Last(q)) : q \in iterdir(f, resolve(f, base))}
             found == IF HasWildcard(np)
                      THEN {c \in listed : Match(np, Last(c)) /\ (dironly => is_dir(f, c))}
                      ELSE {c \in {Append(base, np)} :
                                IF dironly THEN is_dir(f, c) ELSE exists(f, c)}
         IN  UNION {select_from(f, c, Tail(parts)) : c \in found}

(* ok = FALSE: ValueError (empty pattern) or NotImplementedError (absolute) *)
glob(f, pattern) ==
    IF pattern.abs \/ ParseParts(pattern.parts) = <<>>
    THEN [ok |-> FALSE, paths |-> {}]
    ELSE [ok |-> TRUE,
          paths |-> IF is_dir(f, Root)
                    THEN select_from(f, Root, ParseParts(pattern.parts))
                    ELSE {}]

(***************************************************************************)
(* The calls.                                                              *)
(***************************************************************************)
NoArg == Rel(<<>>)

Call(name, source, destination, auto_rename, patterns) ==
    [name |-> name, source |-> source, destination |-> destination,
     auto_rename |-> auto_rename, patterns |-> patterns]

(* the locals of bulk_move_files; matched, collisions, collided and before  *)
(* are history: the files the patterns matched, how many of them had their *)
(* name taken in the destination directory when the call was issued, the   *)
(* paths so taken, and the filesystem the call was issued on               *)
NoBulk ==
    [patterns |-> <<>>, dst |-> NoPath, auto_rename |-> TRUE, pending |-> {},
     moved_files |-> <<>>, renamed_files |-> <<>>, errors |-> <<>>, matched |-> 0,
     collisions |-> 0, collided |-> {}, before |-> <<>>]

Idle == pc = "idle" /\ nops < MaxOps

(* a call that is one step: op is the call, r its outcome *)
Returns(c, r) ==
    /\ Idle
    /\ nops' = nops + 1
    /\ op' = c
    /\ fs' = r.fs
    /\ res' = r.res
    /\ UNCHANGED <<clock, pc, bulk, calls, history>>

ListDirectory(path) ==
    Returns(Call("list_directory", path, NoArg, TRUE, <<>>),
            Ret(fs, list_directory(fs, path)))

MoveFile(source, destination, auto_rename) ==
    Returns(Call("move_file", source, destination, auto_rename, <<>>),
            move_file(fs, clock, source, destination, auto_rename))

MoveDirectory(source, destination, auto_rename) ==
    Returns(Call("move_directory", source, destination, auto_rename, <<>>),
            move_directory(fs, clock, source, destination, auto_rename))

RenameFile(old_name, new_name) ==
    Returns(Call("rename_file", old_name, new_name, TRUE, <<>>),
            rename_file(fs, old_name, new_name))

CreateDirectory(path) ==
    Returns(Call("create_directory", path, NoArg, TRUE, <<>>),
            create_directory(fs, path))

RemoveEmptyDirectory(path) ==
    Returns(Call("remove_empty_directory", path, NoArg, TRUE, <<>>),
            remove_empty_directory(fs, path))

GetFileInfo(path) ==
    Returns(Call("get_file_info", path, NoArg, TRUE, <<>>),
            Ret(fs, get_file_info(fs, path)))

GetMovePreview(source, destination) ==
    Returns(Call("get_move_preview", source, destination, TRUE, <<>>),
            Ret(fs, get_move_preview(fs, clock, source, destination)))

(***************************************************************************)
(* FilesystemLLM: the reply to the user.  A text is a sequence of tokens;  *)
(* a reply is what process_user_input returns: the conversation part and   *)
(* the report on the outcome of the action.                                *)
(***************************************************************************)
(* the keys of the dictionary an operation returns *)
Keys(r) ==
    CASE r.status = "error" -> {"error"}
      [] r.status = "success" ->
            IF r.renamed THEN {"success", "message", "renamed", "final_path"}
                         ELSE {"success", "message"}
      [] r.status = "bulk" ->
            {"success", "moved_files", "renamed_files", "errors", "summary"}
      [] r.status = "items" -> {"items"}
      [] r.status = "info" -> {"name", "path", "type", "size", "modified"}
      [] r.status = "preview" ->
            {"source", "destination", "source_type", "will_create_dirs", "conflict", "safe"}
      [] OTHER -> {}

(* lines 453-463: the report on the result; result['message'] of a result  *)
(* without that key is a KeyError, caught at line 470                      *)
report_of(action, r) ==
    IF "error" \in Keys(r) THEN "[ERROR]"
    ELSE IF "success" \in Keys(r)
    THEN IF "message" \in Keys(r) THEN "[OK]" ELSE "Error processing request"
    ELSE IF action = "list_directory" /\ "items" \in Keys(r) THEN "Directory contents"
    ELSE "Result"

Reply(report, outcome, conversation) ==
    [status |-> "reply", report |-> report, outcome |-> outcome,
     conversation |-> conversation]

(* lines 360-368; no content of the model is longer than 1000 characters *)
add_to_history(h, role, content) ==
    LET longer == Append(h, [role |-> role, content |-> content])
    IN  IF Len(longer) > 6 THEN SubSeq(longer, Len(longer) - 5, Len(longer)) ELSE longer

(* lines 446-474, once the result is there: the reply, added to the        *)
(* history; the parts of a reply that failed to be formatted are dropped   *)
Responds(h, conversation, action, r) ==
    LET report == report_of(action, r)
        reply == Reply(report, r,
                       IF report = "Error processing request" THEN <<>> ELSE conversation)
    IN  /\ res' = reply
        /\ history' = add_to_history(h, "assistant", reply)

(* bulk_move_files returns r, to its caller or into process_user_input *)
BulkReturns(r) ==
    IF op.name = "process_user_input"
    THEN Responds(history, op.conversation, op.action, r)
    ELSE res' = r /\ history' = history

(***************************************************************************)
(* bulk_move_files, one step per loop iteration.  The order in which glob  *)
(* yields its matches is the directory order, which is unspecified: the    *)
(* loop takes the pending matches in any order.                            *)
(***************************************************************************)
(* lines 254-262: resolve and create the destination directory *)
bulk_start(file_patterns, destination_dir, auto_rename) ==
    LET dst == safe_path(fs, destination_dir)
        made == mkdir_parents(fs, dst.path)
    IN  IF ~dst.ok \/ ~made.ok
        THEN /\ res' = Error("exception")
             /\ UNCHANGED <<fs, pc, bulk>>
        ELSE /\ fs' = made.fs
             /\ pc' = "glob"
             /\ res' = NoResult
             /\ bulk' = [NoBulk EXCEPT !.patterns = file_patterns,
                                       !.dst = dst.path,
                                       !.auto_rename = auto_rename,
                                       !.before = fs]

BulkMoveFiles(file_patterns, destination_dir, auto_rename) ==
    /\ pc = "idle"
    /\ nops < MaxBulk
    /\ nops' = nops + 1
    /\ op' = Call("bulk_move_files", NoArg, destination_dir, auto_rename, file_patterns)
    /\ bulk_start(file_patterns, destination_dir, auto_rename)
    /\ UNCHANGED <<clock, calls, history>>

(* lines 264-267: the next pattern's matches *)
BulkGlob ==
    /\ pc = "glob"
    /\ bulk.patterns # <<>>
    /\ LET g == glob(fs, Head(bulk.patterns))
           files == {q \in g.paths : is_file(fs, q)}
           taken == {q \in files : Append(bulk.dst, Last(q)) \in DOMAIN bulk.before}
       IN  IF ~g.ok
           THEN /\ BulkReturns(Error("exception"))
                /\ pc' = "idle"
                /\ bulk' = NoBulk
           ELSE /\ UNCHANGED <<res, history>>
                /\ pc' = IF g.paths = {} THEN "glob" ELSE "item"
                /\ bulk' = [bulk EXCEPT
                       !.pending = g.paths,
                       !.patterns = IF g.paths = {} THEN Tail(@) ELSE @,
                       !.matched = @ + Cardinality(files),
                       !.collisions = @ + Cardinality(taken),
                       !.collided = @ \cup {Append(bulk.dst, Last(q)) : q \in taken}]
    /\ UNCHANGED <<fs, clock, nops, op, calls>>

(* the loop left as soon as a move fails *)
stops_on_error(left, result) ==
    IF result.status = "error" THEN "idle" ELSE IF left = {} THEN "glob" ELSE "item"

(* lines 264, 269: whatever move_file returned, the loops go on with the    *)
(* next match, or with the next pattern when none is left                  *)
goes_on(left, result) == IF left = {} THEN "glob" ELSE "item"

(* every match handed to move_file, whatever its kind *)
takes_any(f, file_path) == TRUE

(* line 270: only a match that is a file is handed to move_file *)
takes(f, file_path) == is_file(f, file_path)

(* lines 269-294: one matched path *)
BulkItem(file_path) ==
    /\ pc = "item"
    /\ file_path \in bulk.pending
    /\ LET left == bulk.pending \ {file_path}
           relative_source == Rel(relative_to(file_path, Root))
           relative_dest == Abs(Append(bulk.dst, Last(file_path)))
           r == move_file(fs, clock, relative_source, relative_dest, bulk.auto_rename)
           next == [bulk EXCEPT !.pending = left,
                                !.patterns = IF left = {} THEN Tail(@) ELSE @]
       IN  /\ pc' = goes_on(left, IF takes(fs, file_path) THEN r.res ELSE NoResult)
           /\ IF ~takes(fs, file_path)
              THEN /\ bulk' = next
                   /\ fs' = fs
              ELSE /\ fs' = r.fs
                   /\ bulk' =
                        IF r.res.status = "success"
                        THEN IF r.res.renamed
                             THEN [next EXCEPT !.renamed_files = Append(@,
                                      [original |-> relative_source,
                                       intended |-> relative_dest,
                                       actual |-> r.res.final_path])]
                             ELSE [next EXCEPT !.moved_files = Append(@,
                                      [source |-> relative_source,
                                       destination |-> relative_dest])]
                        ELSE [next EXCEPT !.errors = Append(@,
                                      [file |-> relative_source,
                                       error |-> r.res.error])]
    /\ UNCHANGED <<clock, nops, op, res, calls, history>>

(* lines 296-305: the aggregate result *)
BulkEnd ==
    /\ pc = "glob"
    /\ bulk.patterns = <<>>
    /\ BulkReturns(Result("bulk", "", FALSE, NoPath))
    /\ pc' = "idle"
    /\ UNCHANGED <<fs, clock, nops, op, bulk, calls>>

(* time passes *)
Tick ==
    /\ clock < MaxClock
    /\ clock' = clock + 1
    /\ UNCHANGED <<fs, nops, op, res, pc, bulk, calls, history>>

(***************************************************************************)
(* SafetyValidator.validate_action and FilesystemLLM._execute_action.      *)
(* An action descriptor is [action, parameters]; parameters maps keyword   *)
(* names to values: a path string, a flag, or a list of patterns.          *)
(***************************************************************************)
ETC == <<"etc">>

(* the keywords whose values are strings *)
StringKeys == {"path", "source", "destination", "old_name", "new_name", "destination_dir"}

(* line 13, "../": a component that ends in ".." and is followed by a slash *)
EndsInDotDot(name) ==
    Len(name) >= 2 /\ name[Len(name)] = "." /\ name[Len(name) - 1] = "."
HasTraversal(text) ==
    \E i \in 1..(Len(text.parts) - 1) : EndsInDotDot(text.parts[i])

(* line 15, a shell character: of the tokens in use, the " (k)" suffixes *)
HasShellCharacter(text) ==
    \E i \in DOMAIN text.parts : \E j \in DOMAIN text.parts[i] :
        text.parts[i][j] \in {Ctr(k) : k \in 1..CounterLimit}

(* line 19, the word sudo anywhere in the text *)
HasCommandWord(text) ==
    \E i \in DOMAIN text.parts : \E j \in DOMAIN text.parts[i] : text.parts[i][j] = "sudo"

(* lines 181-185 over the patterns of lines 12-21; the other five patterns *)
(* need a backslash or one of the words rm, del, format, chmod, which no   *)
(* string built from the model's tokens contains                           *)
contains_dangerous_patterns(text) ==
    HasTraversal(text) \/ HasShellCharacter(text) \/ HasCommandWord(text)

(* lines 187-202; of the patterns only "/etc/" occurs in the model's       *)
(* strings: a component etc with a slash on both sides                     *)
is_system_file(file_path) ==
    \E i \in 1..(Len(file_path.parts) - 1) :
        file_path.parts[i] = ETC /\ (i > 1 \/ file_path.abs)

(* lines 109-117 *)
allowed_actions ==
    {"list_directory", "move_file", "move_directory", "rename_file",
     "create_directory", "remove_empty_directory", "get_file_info"}

(* dict.get: a missing key gives None, which like "" is falsy; both are    *)
(* the empty string here, the value being used for its truth only          *)
Get(parameters, key) ==
    IF key \in DOMAIN parameters THEN parameters[key] ELSE Rel(<<>>)
Falsy(text) == text = Rel(<<>>)
Or(x, y) == IF Falsy(x) THEN y ELSE x

(* what a call of the validator gives: the boolean returned and the       *)
(* security events logged by _log_security_event (lines 204-207)           *)
Verdict(accepted, events) ==
    [status |-> "verdict", accepted |-> accepted, events |-> events]

(* the validator without the screening of the parameters *)
validate_action_unscreened(action, parameters) ==
    IF action \notin allowed_actions THEN Verdict(FALSE, <<"UNAUTHORIZED_ACTION">>)
    ELSE IF action \in {"move_file", "move_directory", "rename_file"}
    THEN LET source == Or(Get(parameters, "source"), Get(parameters, "old_name"))
             destination == Or(Get(parameters, "destination"), Get(parameters, "new_name"))
         IN  IF Falsy(source) \/ Falsy(destination) THEN Verdict(FALSE, <<>>)
             ELSE IF is_system_file(destination)
             THEN Verdict(FALSE, <<"SYSTEM_FILE_MODIFICATION_ATTEMPT">>)
             ELSE Verdict(TRUE, <<>>)
    ELSE Verdict(TRUE, <<>>)

(* lines 107-159, with the events of lines 122, 133 and 153 *)
validate_action_call(action, parameters) ==
    IF action \notin allowed_actions THEN Verdict(FALSE, <<"UNAUTHORIZED_ACTION">>)
    ELSE IF \E key \in DOMAIN parameters \cap StringKeys :
                contains_dangerous_patterns(parameters[key])
    THEN Verdict(FALSE, <<"DANGEROUS_PARAMETER">>)
    ELSE IF action \in {"move_file", "move_directory", "rename_file"}
    THEN LET source == Or(Get(parameters, "source"), Get(parameters, "old_name"))
             destination == Or(Get(parameters, "destination"), Get(parameters, "new_name"))
         IN  IF Falsy(source) \/ Falsy(destination) THEN Verdict(FALSE, <<>>)
             ELSE IF is_system_file(destination)
             THEN Verdict(FALSE, <<"SYSTEM_FILE_MODIFICATION_ATTEMPT">>)
             ELSE Verdict(TRUE, <<>>)
    ELSE Verdict(TRUE, <<>>)

(* the boolean validate_action returns *)
validate_action(action, parameters) == validate_action_call(action, parameters).accepted

(* lines 27-30 and 46-59: str(path).lower() starts with a system directory; *)
(* a Windows directory is no prefix of a POSIX path, and of the Unix ones   *)
(* only /etc is among the model's names                                     *)
in_system_directory(path) ==
    path # <<>> /\ path[1] # <<>> /\ path[1][1] = ETC[1]

(* lines 32-73, root_path an absolute path string; the events are those of *)
(* lines 51, 58 and 64.  Path.resolve raises for none of the model's paths. *)
validate_root_path(f, root_path) ==
    LET path == resolve(f, ParseParts(root_path.parts))
    IN  IF ~exists(f, path) THEN Verdict(FALSE, <<>>)
        ELSE IF ~is_dir(f, path) THEN Verdict(FALSE, <<>>)
        ELSE IF in_system_directory(path) THEN Verdict(FALSE, <<"BLOCKED_SYSTEM_DIRECTORY">>)
        ELSE IF contains_dangerous_patterns(Abs(path))
        THEN Verdict(FALSE, <<"DANGEROUS_PATH_PATTERN">>)
        ELSE Verdict(TRUE, <<>>)

(* lines 401-411: the kinds of the dispatch table *)
action_map ==
    {"list_directory", "move_file", "move_directory", "rename_file",
     "create_directory", "remove_empty_directory", "get_file_info",
     "get_move_preview", "bulk_move_files"}

(* the keywords each callee requires and those it has a default for *)
Required(action) ==
    CASE action = "list_directory" -> {}
      [] action \in {"move_file", "move_directory", "get_move_preview"} -> {"source", "destination"}
      [] action = "rename_file" -> {"old_name", "new_name"}
      [] action = "bulk_move_files" -> {"file_patterns", "destination_dir"}
      [] OTHER -> {"path"}
Defaulted(action) ==
    CASE action = "list_directory" -> {"path"}
      [] action \in {"move_file", "move_directory", "bulk_move_files"} -> {"auto_rename"}
      [] OTHER -> {}

(* line 419, the call with the parameters as keywords: one the callee lacks, *)
(* or a missing one, is a TypeError before the callee runs                 *)
Binds(action, parameters) ==
    /\ Required(action) \subseteq DOMAIN parameters
    /\ DOMAIN parameters \subseteq Required(action) \cup Defaulted(action)

auto_rename_of(parameters) ==
    IF "auto_rename" \in DOMAIN parameters THEN parameters.auto_rename ELSE TRUE

(* the callee of a one-step kind, applied *)
Invoke(f, now, action, parameters) ==
    CASE action = "list_directory" -> Ret(f, list_directory(f, Get(parameters, "path")))
      [] action = "move_file" ->
            move_file(f, now, parameters.source, parameters.destination, auto_rename_of(parameters))
      [] action = "move_directory" ->
            move_directory(f, now, parameters.source, parameters.destination, auto_rename_of(parameters))
      [] action = "rename_file" -> rename_file(f, parameters.old_name, parameters.new_name)
      [] action = "create_directory" -> create_directory(f, parameters.path)
      [] action = "remove_empty_directory" -> remove_empty_directory(f, parameters.path)
      [] action = "get_file_info" -> Ret(f, get_file_info(f, parameters.path))
      [] action = "get_move_preview" ->
            Ret(f, get_move_preview(f, now, parameters.source, parameters.destination))

(* lines 422-426: an exception of the callee becomes an error result *)
Caught(r) == IF r.res.status = "raised" THEN [r EXCEPT !.res = Error("exception")] ELSE r

(* lines 393-426 *)
ExecuteAction(action_data) ==
    LET action == action_data.action
        parameters == action_data.parameters
    IN  /\ Idle
        /\ nops' = nops + 1
        /\ op' = [name |-> "_execute_action", action_data |-> action_data]
        /\ UNCHANGED <<clock, history>>
        /\ IF action \notin action_map
           THEN /\ res' = Error("unknown_action")
                /\ calls' = <<>>
                /\ UNCHANGED <<fs, pc, bulk>>
           ELSE IF ~Binds(action, parameters)
           THEN /\ res' = Error("exception")
                /\ calls' = <<>>
                /\ UNCHANGED <<fs, pc, bulk>>
           ELSE IF action = "bulk_move_files"
           THEN /\ calls' = <<action_data>>
                /\ bulk_start(parameters.file_patterns, parameters.destination_dir,
                              auto_rename_of(parameters))
           ELSE LET r == Caught(Invoke(fs, clock, action, parameters))
                IN  /\ calls' = <<action_data>>
                    /\ fs' = r.fs
                    /\ res' = r.res
                    /\ UNCHANGED <<pc, bulk>>

(***************************************************************************)
(* Initial trees.  /o lies outside the sandbox /r.                         *)
(***************************************************************************)
Outside == (<<R>> :> DirEntry) @@ (<<O>> :> DirEntry) @@ (<<O, A_T>> :> FileEntry("S"))

(* files, a non-empty and an empty directory *)
PlainTree ==
    Outside @@ (<<R, A_T>> :> FileEntry("A")) @@ (<<R, B_T>> :> FileEntry("B"))
            @@ (<<R, D>> :> DirEntry) @@ (<<R, D, A_T>> :> FileEntry("C"))
            @@ (<<R, E>> :> DirEntry)

(* every " (k)" alternative of d/a.t is taken *)
Taken(k) == <<R, D, <<"a", Ctr(k), ".", "t">>>>
CrowdedTree ==
    Outside @@ (<<R, A_T>> :> FileEntry("A")) @@ (<<R, B_T>> :> FileEntry("B"))
            @@ (<<R, D>> :> DirEntry) @@ (<<R, D, A_T>> :> FileEntry("C"))
            @@ [q \in {Taken(k) : k \in 1..CounterLimit} |-> FileEntry("K")]

(* a symlink to a file of the sandbox and one to the outside directory *)
LinkedTree ==
    Outside @@ (<<R, A_T>> :> FileEntry("A"))
            @@ (<<R, M_T>> :> LinkEntry(<<R, A_T>>))
            @@ (<<R, L>> :> LinkEntry(<<O>>))
            @@ (<<R, D>> :> DirEntry)

Trees == {PlainTree, CrowdedTree, LinkedTree}

(***************************************************************************)
(* Arguments the calls are issued with.                                    *)
(***************************************************************************)
OutsidePath == Rel(<<DotDot, X>>)
FileSources == {Rel(<<A_T>>), Rel(<<B_T>>), Rel(<<D>>), OutsidePath}
DirectorySources == {Rel(<<D>>), Rel(<<E>>), Rel(<<A_T>>)}
Destinations == {Rel(<<A_T>>), Rel(<<D>>), Rel(<<D, A_T>>), Rel(<<X, D>>), Rel(<<>>)}
OldNames == {Rel(<<A_T>>), Rel(<<D>>)}
PreviewSources == {Rel(<<A_T>>), Rel(<<D>>)}
PreviewDestinations == {Rel(<<A_T>>), Rel(<<D, A_T>>), Rel(<<X, D>>)}
Paths == {Rel(<<>>), Rel(<<A_T>>), Rel(<<D>>), Rel(<<E>>), OutsidePath,
          Rel(<<L>>), Rel(<<X, D>>), Rel(<<A_T, X>>)}

InitWith(trees) ==
    /\ fs \in trees
    /\ clock = 0
    /\ nops = 0
    /\ op = Call("none", NoArg, NoArg, TRUE, <<>>)
    /\ res = NoResult
    /\ pc = "idle"
    /\ bulk = NoBulk
    /\ calls = <<>>
    /\ history = <<>>

Init == InitWith(Trees)

Next ==
    \/ \E p \in Paths : ListDirectory(p)
    \/ \E s \in FileSources, d \in Destinations, a \in BOOLEAN : MoveFile(s, d, a)
    \/ \E s \in DirectorySources, d \in Destinations, a \in BOOLEAN : MoveDirectory(s, d, a)
    \/ \E s \in OldNames, d \in Destinations : RenameFile(s, d)
    \/ \E p \in Paths : CreateDirectory(p)
    \/ \E p \in Paths : RemoveEmptyDirectory(p)
    \/ \E p \in Paths : GetFileInfo(p)
    \/ \E s \in PreviewSources, d \in PreviewDestinations : GetMovePreview(s, d)
    \/ Tick

Spec == Init /\ [][Next]_vars

(***************************************************************************)
(* bulk_move_files on its own: small trees, every order of the matches.    *)
(***************************************************************************)
AnyT == Rel(<<<<Star, ".", "t">>>>)
AnyName == Rel(<<<<Star>>>>)
InD == Rel(<<D, <<Star>>>>)
PatternLists == {<<AnyT>>, <<AnyT, AnyT>>, <<AnyName>>, <<InD, AnyT>>, <<Abs(<<X>>)>>, <<>>}
BulkDestinations == {Rel(<<D>>), Rel(<<>>), Rel(<<X, D>>), OutsidePath}

BulkTrees == {PlainTree, LinkedTree}

InitBulk == InitWith(BulkTrees)

NextBulk ==
    \/ \E ps \in PatternLists, d \in BulkDestinations, a \in BOOLEAN : BulkMoveFiles(ps, d, a)
    \/ BulkGlob
    \/ \E q \in bulk.pending : BulkItem(q)
    \/ BulkEnd
    \/ Tick

SpecBulk == InitBulk /\ [][NextBulk]_vars

(***************************************************************************)
(* _safe_path on its own: every path string of up to MaxParts components.  *)
(***************************************************************************)
Components == {A_T, D, L, M_T, R, O, Dot, DotDot}

RECURSIVE SeqsUpTo(_, _)
SeqsUpTo(S, n) ==
    IF n = 0 THEN {<<>>}
    ELSE LET shorter == SeqsUpTo(S, n - 1)
         IN  shorter \cup {Append(q, c) : q \in shorter, c \in S}

PathStrings == {PathStr(a, q) : a \in BOOLEAN, q \in SeqsUpTo(Components, MaxParts)}

(* the call: the resolved path is carried in final_path *)
SafePath ==
    /\ op.name = "safe_path"
    /\ nops = 0
    /\ nops' = 1
    /\ res' = LET r == safe_path(fs, op.source)
              IN  IF r.ok THEN Result("path", "", FALSE, r.path) ELSE Raised("ValueError")
    /\ UNCHANGED <<fs, clock, op, pc, bulk, calls, history>>

InitPath ==
    /\ fs \in Trees
    /\ op \in {Call("safe_path", p, NoArg, TRUE, <<>>) : p \in PathStrings}
    /\ clock = 0
    /\ nops = 0
    /\ res = NoResult
    /\ pc = "idle"
    /\ bulk = NoBulk
    /\ calls = <<>>
    /\ history = <<>>

NextPath == SafePath

SpecPath == InitPath /\ [][NextPath]_vars

(***************************************************************************)
(* C1  Confinement.  Whatever the path string and the tree, _safe_path     *)
(* either returns a canonical path (no "..", no ".", no symlink left in    *)
(* it) that is Root or lies below Root, or raises the outside-root         *)
(* ValueError; a path string that never names the sandbox directory and    *)
(* is absolute or starts with ".." is always refused.                      *)
(***************************************************************************)
Mentions(parts, name) == \E i \in 1..Len(parts) : parts[i] = name

IsCanonical(f, p) ==
    /\ ~Mentions(p, Dot)
    /\ ~Mentions(p, DotDot)
    /\ \A i \in 1..Len(p) :
          SubSeq(p, 1, i) \in DOMAIN f => f[SubSeq(p, 1, i)].kind # "link"

LeavesRoot(ps) ==
    /\ ~Mentions(ps.parts, R)
    /\ ps.abs \/ (ParseParts(ps.parts) # <<>> /\ Head(ParseParts(ps.parts)) = DotDot)

C1_Confinement ==
    (op.name = "safe_path" /\ nops = 1) =>
        /\ \/ /\ res.status = "path"
              /\ IsPrefix(Root, res.final_path)
              /\ IsCanonical(fs, res.final_path)
           \/ res = Raised("ValueError")
        /\ LeavesRoot(op.source) => res = Raised("ValueError")

(* a path through "..", and one through the symlink to /o *)
C1_Witness ==
    /\ op.name = "safe_path"
    /\ nops = 1
    /\ op.source = Rel(<<L, DotDot, R, M_T>>)
    /\ res.status = "path"
    /\ res.final_path = <<R, A_T>>
    /\ safe_path(fs, Rel(<<L, A_T>>)).ok = FALSE

(***************************************************************************)
(* The dispatcher: descriptors as the parser hands them over, well formed  *)
(* and not.                                                                *)
(***************************************************************************)
Descriptor(action, parameters) == [action |-> action, parameters |-> parameters]

Descriptors ==
    {Descriptor("list_directory", <<>>),
     Descriptor("list_directory", [path |-> Rel(<<D>>)]),
     Descriptor("list_directory", [path |-> OutsidePath]),
     Descriptor("get_file_info", [path |-> Rel(<<A_T>>)]),
     Descriptor("create_directory", [path |-> Rel(<<X>>)]),
     Descriptor("create_directory", [path |-> Rel(<<D, <<"a", Ctr(1), ".", "t">>>>)]),
     Descriptor("remove_empty_directory", [path |-> Rel(<<E>>)]),
     Descriptor("remove_empty_directory", [path |-> Rel(<<D>>)]),
     Descriptor("remove_empty_directory", <<>>),
     Descriptor("move_file", [source |-> Rel(<<A_T>>), destination |-> Rel(<<D, A_T>>)]),
     Descriptor("move_file", [source |-> Rel(<<A_T>>), destination |-> Rel(<<D, A_T>>),
                              auto_rename |-> FALSE]),
     Descriptor("move_file", [source |-> Rel(<<B_T>>), destination |-> Rel(<<ETC, B_T>>)]),
     Descriptor("move_file", [source |-> OutsidePath, destination |-> Rel(<<D, X>>)]),
     Descriptor("move_file", [source |-> Rel(<<A_T>>)]),
     Descriptor("move_file", [source |-> Rel(<<A_T>>), destination |-> Rel(<<>>)]),
     Descriptor("move_directory", [source |-> Rel(<<D>>), destination |-> Rel(<<E, D>>)]),
     Descriptor("rename_file", [old_name |-> Rel(<<B_T>>), new_name |-> Rel(<<C_T>>)]),
     Descriptor("rename_file", [source |-> Rel(<<B_T>>), destination |-> Rel(<<C_T>>)]),
     Descriptor("get_move_preview", [source |-> Rel(<<A_T>>), destination |-> Rel(<<D, A_T>>)]),
     Descriptor("bulk_move_files", [file_patterns |-> <<AnyT>>, destination_dir |-> Rel(<<D>>)]),
     Descriptor("bulk_move_files", [file_patterns |-> <<AnyT>>, destination_dir |-> OutsidePath]),
     Descriptor("delete_file", [path |-> Rel(<<A_T>>)])}

InitLLM == InitWith({PlainTree, LinkedTree})

NextLLM ==
    \/ \E d \in Descriptors : ExecuteAction(d)
    \/ BulkGlob
    \/ \E q \in bulk.pending : BulkItem(q)
    \/ BulkEnd

SpecLLM == InitLLM /\ [][NextLLM]_vars

(***************************************************************************)
(* FilesystemLLM._parse_llm_response.  The text of the language model is a *)
(* sequence of tokens: the braces, the comma, white space, a word of plain *)
(* text, a scalar member of an object ("key": value) and the key of a      *)
(* member whose value is an object ("parameters":).  Positions count from  *)
(* 1, and 0 stands for the -1 of str.find.                                 *)
(***************************************************************************)
LB == "{"
RB == "}"
Comma == ","
Blank == " "
Word == "ok"

(* "key": value, the value a string, a list of strings or a boolean *)
Pairs ==
    ("action:list_directory" :> [key |-> "action", value |-> "list_directory"]) @@
    ("action:get_file_info" :> [key |-> "action", value |-> "get_file_info"]) @@
    ("action:get_move_preview" :> [key |-> "action", value |-> "get_move_preview"]) @@
    ("action:move_file" :> [key |-> "action", value |-> "move_file"]) @@
    ("action:create_directory" :> [key |-> "action", value |-> "create_directory"]) @@
    ("action:bulk_move_files" :> [key |-> "action", value |-> "bulk_move_files"]) @@
    ("action:delete_file" :> [key |-> "action", value |-> "delete_file"]) @@
    ("path:d" :> [key |-> "path", value |-> Rel(<<D>>)]) @@
    ("path:x" :> [key |-> "path", value |-> Rel(<<X>>)]) @@
    ("source:a.t" :> [key |-> "source", value |-> Rel(<<A_T>>)]) @@
    ("source:c.t" :> [key |-> "source", value |-> Rel(<<C_T>>)]) @@
    ("destination:d/a.t" :> [key |-> "destination", value |-> Rel(<<D, A_T>>)]) @@
    ("destination:e/a.t" :> [key |-> "destination", value |-> Rel(<<E, A_T>>)]) @@
    ("file_patterns:[*.t]" :> [key |-> "file_patterns", value |-> <<AnyT>>]) @@
    ("destination_dir:e" :> [key |-> "destination_dir", value |-> Rel(<<E>>)]) @@
    ("auto_rename:false" :> [key |-> "auto_rename", value |-> FALSE])

ObjectKeys == ("parameters:" :> "parameters")

(* str.strip *)
RECURSIVE lstrip(_)
lstrip(text) ==
    IF text # <<>> /\ Head(text) = Blank THEN lstrip(Tail(text)) ELSE text

RECURSIVE rstrip(_)
rstrip(text) ==
    IF text # <<>> /\ text[Len(text)] = Blank
    THEN rstrip(SubSeq(text, 1, Len(text) - 1)) ELSE text

strip(text) == rstrip(lstrip(text))

(* str.find of a character that occurs only as the token *)
find(text, token) ==
    IF \E i \in DOMAIN text : text[i] = token
    THEN CHOOSE i \in DOMAIN text : text[i] = token /\ \A j \in 1..(i - 1) : text[j] # token
    ELSE 0

(* the first occurrence instead of the last *)
first_occurrence(text, token) == find(text, token)

(* str.rfind *)
rfind(text, token) ==
    IF \E i \in DOMAIN text : text[i] = token
    THEN CHOOSE i \in DOMAIN text :
             text[i] = token /\ \A j \in (i + 1)..Len(text) : text[j] # token
    ELSE 0

(* json.loads of a text that starts with a brace: an object is a pair of   *)
(* braces around members separated by commas, of a repeated key the last   *)
(* member stays, white space between tokens is skipped, and text after the *)
(* object is an error                                                      *)
NoJSON == [ok |-> FALSE, value |-> <<>>, rest |-> <<>>]

RECURSIVE ParseObject(_), ParseMembers(_, _)
ParseObject(t) ==
    IF t = <<>> \/ Head(t) # LB THEN NoJSON
    ELSE IF Len(t) >= 2 /\ t[2] = RB
    THEN [ok |-> TRUE, value |-> <<>>, rest |-> Tail(Tail(t))]
    ELSE ParseMembers(Tail(t), <<>>)

ParseMembers(t, sofar) ==
    LET m == IF t = <<>> THEN [ok |-> FALSE]
             ELSE IF Head(t) \in DOMAIN Pairs
             THEN [ok |-> TRUE, key |-> Pairs[Head(t)].key,
                   value |-> Pairs[Head(t)].value, rest |-> Tail(t)]
             ELSE IF Head(t) \in DOMAIN ObjectKeys
             THEN LET o == ParseObject(Tail(t))
                  IN  [ok |-> o.ok, key |-> ObjectKeys[Head(t)],
                       value |-> o.value, rest |-> o.rest]
             ELSE [ok |-> FALSE]
    IN  IF ~m.ok \/ m.rest = <<>> THEN NoJSON
        ELSE LET value == [k \in DOMAIN sofar \cup {m.key} |->
                              IF k = m.key THEN m.value ELSE sofar[k]]
             IN  IF Head(m.rest) = RB
                 THEN [ok |-> TRUE, value |-> value, rest |-> Tail(m.rest)]
                 ELSE IF Head(m.rest) = Comma THEN ParseMembers(Tail(m.rest), value)
                 ELSE NoJSON

NotBlank(token) == token # Blank

json_loads(text) ==
    LET o == ParseObject(SelectSeq(text, NotBlank))
    IN  IF o.ok /\ o.rest = <<>> THEN [ok |-> TRUE, value |-> o.value]
        ELSE [ok |-> FALSE, value |-> <<>>]

(* lines 370-391; None is the empty conversation, which line 448 treats    *)
(* the same, and no action is found = FALSE                                *)
parse_llm_response(llm_response) ==
    LET response == strip(llm_response)
        start_idx == find(response, LB)
        end_idx == rfind(response, RB)
    IN  IF start_idx # 0 /\ end_idx # 0 /\ end_idx > start_idx
        THEN LET loaded == json_loads(SubSeq(response, start_idx, end_idx))
                 conversation_part ==
                     strip(SubSeq(response, 1, start_idx - 1)
                           \o SubSeq(response, end_idx + 1, Len(response)))
             IN  IF loaded.ok
                 THEN [found |-> TRUE, action_data |-> loaded.value,
                       conversation |-> conversation_part]
                 ELSE [found |-> FALSE, action_data |-> <<>>, conversation |-> response]
        ELSE [found |-> FALSE, action_data |-> <<>>, conversation |-> response]

(***************************************************************************)
(* FilesystemLLM.process_user_input, lines 428-474.  The answer of the     *)
(* language model is an input; LLMFailure is generate_response raising.    *)
(***************************************************************************)
LLMFailure == <<"generate_response raises">>

ProcessUserInput(user_input, llm_response) ==
    \E parsed \in {IF llm_response = LLMFailure
                    THEN [found |-> FALSE, action_data |-> <<>>, conversation |-> <<>>]
                    ELSE parse_llm_response(llm_response)} :
    \E action_data \in {parsed.action_data} :
    \E action \in {IF "action" \in DOMAIN action_data THEN action_data.action ELSE "None"} :
    \E parameters \in {IF "parameters" \in DOMAIN action_data
                        THEN action_data.parameters ELSE <<>>} :
    \E asked \in {add_to_history(history, "user", user_input)} :
        /\ Idle
        /\ nops' = nops + 1
        /\ clock' = clock
        /\ op' = [name |-> "process_user_input", llm_response |-> llm_response,
                  found |-> parsed.found, action_data |-> action_data,
                  action |-> action, conversation |-> parsed.conversation]
        /\ IF llm_response = LLMFailure
           THEN /\ res' = Reply("Error processing request", NoResult, <<>>)
                /\ history' = add_to_history(asked, "assistant", res')
                /\ calls' = <<>>
                /\ UNCHANGED <<fs, pc, bulk>>
           ELSE IF action_data = <<>>
           THEN /\ res' = Reply("", NoResult, parsed.conversation)
                /\ history' = add_to_history(asked, "assistant", res')
                /\ calls' = <<>>
                /\ UNCHANGED <<fs, pc, bulk>>
           ELSE IF action \notin action_map
           THEN /\ Responds(asked, parsed.conversation, action, Error("unknown_action"))
                /\ calls' = <<>>
                /\ UNCHANGED <<fs, pc, bulk>>
           ELSE IF ~Binds(action, parameters)
           THEN /\ Responds(asked, parsed.conversation, action, Error("exception"))
                /\ calls' = <<>>
                /\ UNCHANGED <<fs, pc, bulk>>
           ELSE IF action = "bulk_move_files"
           THEN /\ calls' = <<action_data>>
                /\ history' = asked
                /\ bulk_start(parameters.file_patterns, parameters.destination_dir,
                              auto_rename_of(parameters))
           ELSE LET r == Caught(Invoke(fs, clock, action, parameters))
                IN  /\ calls' = <<action_data>>
                    /\ fs' = r.fs
                    /\ Responds(asked, parsed.conversation, action, r.res)
                    /\ UNCHANGED <<pc, bulk>>

(***************************************************************************)
(* A conversation: answers of the language model with and without a        *)
(* descriptor, after no or two earlier exchanges.                          *)
(***************************************************************************)
Says(before, action, parameters, after) ==
    before \o <<LB, action, Comma, Blank, "parameters:", LB>> \o parameters
           \o <<RB, RB>> \o after

Responses ==
    {<<Word, Blank, Word>>,
     <<LB, RB>>,
     <<Word, LB, "action:list_directory", RB>>,
     Says(<<>>, "action:list_directory", <<"path:d">>, <<>>),
     Says(<<Word>>, "action:get_file_info", <<"path:d">>, <<Blank>>),
     Says(<<>>, "action:get_move_preview", <<"source:a.t", Comma, "destination:d/a.t">>, <<>>),
     Says(<<Word, Blank>>, "action:move_file",
          <<"source:a.t", Comma, "destination:d/a.t">>, <<Blank, Word>>),
     Says(<<>>, "action:move_file", <<"source:c.t", Comma, "destination:e/a.t">>, <<>>),
     Says(<<>>, "action:move_file", <<"source:a.t">>, <<>>),
     Says(<<>>, "action:create_directory", <<"path:x">>, <<Word>>),
     Says(<<Word>>, "action:bulk_move_files",
          <<"file_patterns:[*.t]", Comma, "destination_dir:e">>, <<>>),
     Says(<<>>, "action:delete_file", <<"path:d">>, <<>>),
     LLMFailure}

UserInputs == {<<Word>>}

Earlier ==
    LET said == [status |-> "reply", report |-> "", outcome |-> NoResult,
                 conversation |-> <<Word>>]
    IN  <<[role |-> "user", content |-> <<Word>>], [role |-> "assistant", content |-> said],
          [role |-> "user", content |-> <<Word>>], [role |-> "assistant", content |-> said]>>

InitChat ==
    /\ fs \in {PlainTree, LinkedTree}
    /\ clock = 0
    /\ nops = 0
    /\ op = Call("none", NoArg, NoArg, TRUE, <<>>)
    /\ res = NoResult
    /\ pc = "idle"
    /\ bulk = NoBulk
    /\ calls = <<>>
    /\ history \in {<<>>, Earlier}

NextChat ==
    \/ \E u \in UserInputs, text \in Responses : ProcessUserInput(u, text)
    \/ BulkGlob
    \/ \E q \in bulk.pending : BulkItem(q)
    \/ BulkEnd

SpecChat == InitChat /\ [][NextChat]_vars

(***************************************************************************)
(* The parser on its own: process_user_input on every answer of up to      *)
(* MaxText of these tokens.                                                *)
(***************************************************************************)
MaxText == 5

TextTokens == {LB, RB, Comma, Blank, Word, "action:list_directory", "parameters:", "path:d"}

Texts == SeqsUpTo(TextTokens, MaxText)

Hears ==
    /\ op.name = "generate_response"
    /\ ProcessUserInput(<<Word>>, op.llm_response)

InitParse ==
    /\ fs = PlainTree
    /\ op \in {[name |-> "generate_response", llm_response |-> text] : text \in Texts}
    /\ clock = 0
    /\ nops = 0
    /\ res = NoResult
    /\ pc = "idle"
    /\ bulk = NoBulk
    /\ calls = <<>>
    /\ history = <<>>

NextParse == Hears

SpecParse == InitParse /\ [][NextParse]_vars

(***************************************************************************)
(* The validator on its own: descriptors and candidate roots, on the plain *)
(* and the linked tree and on one with a system directory and a directory  *)
(* with a shell character in its name.                                     *)
(***************************************************************************)
Bracketed == <<"d", Ctr(1)>>

ValidatorTree ==
    PlainTree @@ (<<ETC>> :> DirEntry) @@ (<<ETC, D>> :> DirEntry)
              @@ (<<R, Bracketed>> :> DirEntry)

RootPaths ==
    {Abs(<<R>>), Abs(<<R, D>>), Abs(<<R, D, DotDot>>), Abs(<<R, A_T>>), Abs(<<R, X>>),
     Abs(<<R, L>>), Abs(<<ETC>>), Abs(<<ETC, D>>), Abs(<<R, Bracketed>>)}

ValidatorDescriptors ==
    Descriptors \cup
    {Descriptor("move_file", [source |-> Rel(<<B_T>>), destination |-> Abs(<<ETC, B_T>>)]),
     Descriptor("rename_file", [old_name |-> Rel(<<B_T>>), new_name |-> Rel(<<D, ETC, B_T>>)]),
     Descriptor("move_directory", [destination |-> Rel(<<E, D>>)]),
     Descriptor("create_directory", [path |-> Rel(<<DotDot, X>>)]),
     Descriptor("get_file_info", [path |-> Rel(<<D, <<"p", "sudo", ".", "t">>>>)]),
     Descriptor("move_file", [source |-> Rel(<<DotDot, A_T>>), destination |-> Rel(<<D, A_T>>)]),
     Descriptor("rename_file", [old_name |-> Rel(<<B_T>>), new_name |-> Rel(<<C_T>>),
                                destination |-> Rel(<<D, ETC, B_T>>)]),
     Descriptor("rename_file", [old_name |-> Rel(<<B_T>>), destination |-> Rel(<<C_T>>),
                                new_name |-> Rel(<<D, ETC, B_T>>)])}

ValidateAction(action_data) ==
    /\ Idle
    /\ nops' = nops + 1
    /\ op' = [name |-> "validate_action", action_data |-> action_data]
    /\ res' = validate_action_call(action_data.action, action_data.parameters)
    /\ UNCHANGED <<fs, clock, pc, bulk, calls, history>>

ValidateRootPath(root_path) ==
    /\ Idle
    /\ nops' = nops + 1
    /\ op' = Call("validate_root_path", root_path, NoArg, TRUE, <<>>)
    /\ res' = validate_root_path(fs, root_path)
    /\ UNCHANGED <<fs, clock, pc, bulk, calls, history>>

InitValidator == InitWith({PlainTree, LinkedTree, ValidatorTree})

NextValidator ==
    \/ \E d \in ValidatorDescriptors : ValidateAction(d)
    \/ \E p \in RootPaths : ValidateRootPath(p)

SpecValidator == InitValidator /\ [][NextValidator]_vars

(***************************************************************************)
(* The operations next to another process.  move_file, move_directory,     *)
(* rename_file and remove_empty_directory in the steps they take on the    *)
(* filesystem: the checks (pc = "checked" when they pass), mkdir (pc =     *)
(* "made") and the move, rename or rmdir.  Between two steps the other     *)
(* process may change the tree once: remove an entry with what is below    *)
(* it, or create a file or a directory.                                    *)
(***************************************************************************)
Started(c, src_path, dst_path, original_dst_path) ==
    [name |-> c.name, source |-> c.source, destination |-> c.destination,
     auto_rename |-> c.auto_rename, patterns |-> c.patterns,
     src_path |-> src_path, dst_path |-> dst_path,
     original_dst_path |-> original_dst_path,
     vanished |-> {}, appeared |-> {}]

(* the checks passed, or the result was returned by them *)
Checked(c, src_path, dst_path, original_dst_path) ==
    /\ op' = Started(c, src_path, dst_path, original_dst_path)
    /\ res' = NoResult
    /\ pc' = "checked"

Refused(c, r) ==
    /\ op' = Started(c, NoPath, NoPath, NoPath)
    /\ res' = r
    /\ pc' = "idle"

(* lines 91-108 / 130-147 *)
MoveChecks(c) ==
    \E src \in {safe_path(fs, c.source)}, dst \in {safe_path(fs, c.destination)} :
        IF ~src.ok \/ ~dst.ok THEN Refused(c, Error("exception"))
        ELSE IF ~exists(fs, src.path) THEN Refused(c, Error("source_missing"))
        ELSE IF c.name = "move_file" /\ is_dir(fs, src.path)
             THEN Refused(c, Error("use_move_directory"))
        ELSE IF c.name = "move_directory" /\ ~is_dir(fs, src.path)
             THEN Refused(c, Error("use_move_file"))
        ELSE IF refused(fs, dst.path, c.auto_rename)
             THEN Refused(c, Error("destination_exists"))
        ELSE \E dst_path \in {IF exists(fs, dst.path)
                              THEN generate_safe_filename(fs, dst.path, clock)
                              ELSE dst.path} :
                 IF ~is_relative_to(dst_path, Root) THEN Refused(c, Error("exception"))
                 ELSE Checked(c, src.path, dst_path, dst.path)

(* lines 169-176 *)
RenameChecks(c) ==
    \E old \in {safe_path(fs, c.source)}, new \in {safe_path(fs, c.destination)} :
        IF ~old.ok \/ ~new.ok THEN Refused(c, Error("exception"))
        ELSE IF ~exists(fs, old.path) THEN Refused(c, Error("source_missing"))
        ELSE IF exists(fs, new.path) THEN Refused(c, Error("target_exists"))
        ELSE Checked(c, old.path, new.path, new.path)

(* lines 203-212 *)
RemoveChecks(c) ==
    \E target \in {safe_path(fs, c.source)} :
        IF ~target.ok THEN Refused(c, Error("exception"))
        ELSE IF ~exists(fs, target.path) THEN Refused(c, Error("missing"))
        ELSE IF ~is_dir(fs, target.path) THEN Refused(c, Error("not_a_directory"))
        ELSE IF iterdir(fs, target.path) # {} THEN Refused(c, Error("not_empty"))
        ELSE Checked(c, target.path, NoPath, NoPath)

Checks(c) ==
    /\ Idle
    /\ nops' = nops + 1
    /\ CASE c.name \in {"move_file", "move_directory"} -> MoveChecks(c)
         [] c.name = "rename_file" -> RenameChecks(c)
         [] c.name = "remove_empty_directory" -> RemoveChecks(c)
    /\ UNCHANGED <<fs, clock, bulk, calls, history>>

(* lines 110-111 / 149-150: dst_path.parent.mkdir(parents=True, exist_ok=True) *)
Mkdir ==
    /\ pc = "checked"
    /\ op.name \in {"move_file", "move_directory"}
    /\ \E made \in {mkdir_parents(fs, Front(op.dst_path))} :
          IF made.ok
          THEN fs' = made.fs /\ pc' = "made" /\ res' = res
          ELSE fs' = fs /\ pc' = "idle" /\ res' = Error("exception")
    /\ UNCHANGED <<clock, nops, op, bulk, calls, history>>

(* lines 113-126 / 152-165: shutil.move and the result; except Exception *)
Move ==
    /\ pc = "made"
    /\ \E mv \in {shutil_move(fs, op.src_path, op.dst_path)} :
          /\ fs' = mv.fs
          /\ res' = IF ~mv.ok THEN Error("exception")
                    ELSE IF op.dst_path # op.original_dst_path
                    THEN Renamed(relative_to(op.dst_path, Root))
                    ELSE Success
    /\ pc' = "idle"
    /\ UNCHANGED <<clock, nops, op, bulk, calls, history>>

(* lines 178-184: old_path.rename(new_path); except Exception *)
Rename ==
    /\ pc = "checked"
    /\ op.name = "rename_file"
    /\ \E mv \in {os_rename(fs, op.src_path, op.dst_path)} :
          /\ fs' = mv.fs
          /\ res' = IF mv.ok THEN Success ELSE Error("exception")
    /\ pc' = "idle"
    /\ UNCHANGED <<clock, nops, op, bulk, calls, history>>

(* lines 214-220: target_path.rmdir(); except Exception *)
Rmdir ==
    /\ pc = "checked"
    /\ op.name = "remove_empty_directory"
    /\ \E removed \in {rmdir(fs, op.src_path)} :
          /\ fs' = removed.fs
          /\ res' = IF removed.ok THEN Success ELSE Error("exception")
    /\ pc' = "idle"
    /\ UNCHANGED <<clock, nops, op, bulk, calls, history>>

(* the other process, once per call *)
Undisturbed == pc \in {"checked", "made"} /\ op.vanished = {} /\ op.appeared = {}

Vanishes(p) ==
    /\ Undisturbed
    /\ p \in DOMAIN fs /\ p # Root /\ IsPrefix(Root, p)
    /\ fs' = Remove(fs, Under(fs, p))
    /\ op' = [op EXCEPT !.vanished = Under(fs, p)]
    /\ UNCHANGED <<clock, nops, res, pc, bulk, calls, history>>

Appears(p, entry) ==
    /\ Undisturbed
    /\ p \notin DOMAIN fs
    /\ Front(p) \in DOMAIN fs /\ fs[Front(p)].kind = "dir"
    /\ fs' = fs @@ (p :> entry)
    /\ op' = [op EXCEPT !.appeared = {p}]
    /\ UNCHANGED <<clock, nops, res, pc, bulk, calls, history>>

RaceCalls ==
    {Call("move_file", Rel(<<A_T>>), Rel(<<D, A_T>>), TRUE, <<>>),
     Call("move_file", Rel(<<B_T>>), Rel(<<X, B_T>>), TRUE, <<>>),
     Call("move_file", Rel(<<B_T>>), Rel(<<E>>), FALSE, <<>>),
     Call("move_directory", Rel(<<D>>), Rel(<<E, D>>), TRUE, <<>>),
     Call("move_directory", Rel(<<E>>), Rel(<<D>>), TRUE, <<>>),
     Call("rename_file", Rel(<<B_T>>), Rel(<<C_T>>), TRUE, <<>>),
     Call("rename_file", Rel(<<D>>), Rel(<<X>>), TRUE, <<>>),
     Call("remove_empty_directory", Rel(<<E>>), NoArg, TRUE, <<>>),
     Call("remove_empty_directory", Rel(<<D>>), NoArg, TRUE, <<>>)}

(* where the other process creates something: at the destination, beside   *)
(* it, or inside the source                                                *)
Arrivals ==
    IF pc \in {"checked", "made"}
    THEN {op.dst_path, op.original_dst_path, Append(op.src_path, X), <<R, X>>} \ {NoPath}
    ELSE {}

InitRace == InitWith({PlainTree})

NextRace ==
    \/ \E c \in RaceCalls : Checks(c)
    \/ Mkdir
    \/ Move
    \/ Rename
    \/ Rmdir
    \/ \E p \in DOMAIN fs : Vanishes(p)
    \/ \E p \in Arrivals, entry \in {FileEntry("Z"), DirEntry} : Appears(p, entry)

SpecRace == InitRace /\ [][NextRace]_vars

(***************************************************************************)
(* What the claims speak of.                                               *)
(***************************************************************************)
Moves == {"move_file", "move_directory"}

(* this step is a call of one of the named operations *)
Called(names) == nops' = nops + 1 /\ op'.name \in names

(* the call's arguments, resolved in the tree it is issued on *)
SourceOf(c) == safe_path(fs, c.source)
DestinationOf(c) == safe_path(fs, c.destination)

(* the source exists and is of the kind the entry point moves *)
SourceFits(c) ==
    /\ SourceOf(c).ok
    /\ exists(fs, SourceOf(c).path)
    /\ (c.name = "move_file") = ~is_dir(fs, SourceOf(c).path)

Conflict(c) == DestinationOf(c).ok /\ exists(fs, DestinationOf(c).path)

(* what lies at p: the entry and everything below it, by relative path *)
Subtree(f, p) ==
    [q \in {relative_to(x, p) : x \in Under(f, p)} |-> f[p \o q]]

(* the contents of the files below Root, with their multiplicity *)
FilesWith(f, c) ==
    {q \in DOMAIN f : IsPrefix(Root, q) /\ f[q].kind = "file" /\ f[q].content = c}
Contents(f) == {f[q].content : q \in {x \in DOMAIN f : f[x].kind = "file"}}

(***************************************************************************)
(* C2  No-overwrite.  A successful move_file / move_directory with         *)
(* auto_rename = True of an existing source S onto an existing destination *)
(* D leaves the entry at D in place and unchanged, and S's content is      *)
(* afterwards found at a path other than D.                                *)
(***************************************************************************)
C2_NoOverwrite ==
    [][(/\ Called(Moves)
        /\ op'.auto_rename
        /\ SourceFits(op')
        /\ Conflict(op')
        /\ res'.status = "success")
       => LET S == SourceOf(op').path
              Dst == DestinationOf(op').path
          IN  /\ Dst \in DOMAIN fs'
              /\ fs'[Dst] = fs[Dst]
              /\ \E q \in DOMAIN fs' : q # Dst /\ Subtree(fs', q) = Subtree(fs, S)]_vars

(***************************************************************************)
(* C3  No deletion.  No step of any operation loses a file: for every      *)
(* content, at least as many files below Root hold it after the step as    *)
(* before, and no directory that held entries disappears.                  *)
(***************************************************************************)
C3_NoDeletion ==
    [][\A c \in Contents(fs) :
          Cardinality(FilesWith(fs, c)) <= Cardinality(FilesWith(fs', c))]_vars

(***************************************************************************)
(* C4  Strict mode.  move_file / move_directory with auto_rename = False   *)
(* onto an existing destination returns an error and changes nothing; the  *)
(* error is the destination conflict when the source is fit to be moved.   *)
(***************************************************************************)
C4_StrictMode ==
    [][(Called(Moves) /\ ~op'.auto_rename /\ Conflict(op'))
       => /\ res'.status = "error"
          /\ fs' = fs
          /\ SourceFits(op') => res'.error = "destination_exists"]_vars

C4_Witness ==
    /\ op.name \in Moves
    /\ ~op.auto_rename
    /\ res = Error("destination_exists")
    /\ exists(fs, safe_path(fs, op.source).path)
    /\ exists(fs, safe_path(fs, op.destination).path)

(***************************************************************************)
(* C5  Rename distinctness.  Two auto-rename moves in a row, of different  *)
(* sources into the same occupied destination name, end at two different   *)
(* paths, neither of them the destination, and the second leaves the       *)
(* result of the first as it was.                                          *)
(***************************************************************************)
RenamedMove(c, r) == c.name \in Moves /\ r.status = "success" /\ r.renamed

C5_RenameDistinct ==
    [][(/\ RenamedMove(op, res)
        /\ Called(Moves)
        /\ RenamedMove(op', res')
        /\ op'.destination = op.destination
        /\ op'.source # op.source)
       => /\ res'.final_path # res.final_path
          /\ res'.final_path # relative_to(DestinationOf(op').path, Root)
          /\ Subtree(fs', Root \o res.final_path) = Subtree(fs, Root \o res.final_path)]_vars

(***************************************************************************)
(* C8  Non-empty directory guard.  remove_empty_directory on a directory   *)
(* that holds an entry returns an error and changes nothing.               *)
(***************************************************************************)
C8_NonEmptyGuard ==
    [][(/\ Called({"remove_empty_directory"})
        /\ SourceOf(op').ok
        /\ is_dir(fs, SourceOf(op').path)
        /\ iterdir(fs, SourceOf(op').path) # {})
       => res'.status = "error" /\ fs' = fs]_vars

C8_Witness ==
    /\ op.name = "remove_empty_directory"
    /\ res = Error("not_empty")
    /\ iterdir(fs, safe_path(fs, op.source).path) # {}

(***************************************************************************)
(* C9  No exception across the operation boundary.  Every call returns a   *)
(* result; none raises.                                                    *)
(***************************************************************************)
C9_NoException == res.status # "raised"

(***************************************************************************)
(* C10  Bulk accounting.  When bulk_move_files returns its aggregate, the  *)
(* three lists together hold one entry for every file its patterns         *)
(* matched.                                                                *)
(***************************************************************************)
C10_BulkAccounting ==
    res.status = "bulk" =>
        Len(bulk.moved_files) + Len(bulk.renamed_files) + Len(bulk.errors) = bulk.matched

(***************************************************************************)
(* C6  Validation gate before dispatch.  _execute_action invokes an        *)
(* operation only for a descriptor that validate_action accepts; for one   *)
(* it rejects, the result is an error and nothing is invoked.              *)
(***************************************************************************)
C6_ValidationGate ==
    op.name = "_execute_action" =>
        LET accepted == validate_action(op.action_data.action, op.action_data.parameters)
        IN  /\ calls # <<>> => accepted
            /\ ~accepted => calls = <<>> /\ res.status = "error"

(***************************************************************************)
(* C7  Allowlist/registry parity.  The kinds validate_action accepts are   *)
(* the nine operations, and they are the kinds _execute_action dispatches: *)
(* a descriptor's kind is accepted by the validator exactly when the       *)
(* dispatcher knows it.                                                    *)
(***************************************************************************)
NineKinds ==
    {"list_directory", "move_file", "move_directory", "rename_file",
     "create_directory", "remove_empty_directory", "get_file_info",
     "get_move_preview", "bulk_move_files"}

AcceptedKinds == {d.action : d \in {x \in Descriptors : validate_action(x.action, x.parameters)}}

C7_Parity ==
    op.name = "_execute_action" =>
        /\ AcceptedKinds = NineKinds
        /\ (op.action_data.action \in AcceptedKinds) = (res # Error("unknown_action"))

(***************************************************************************)
(* C11  Bulk collision counts.  When bulk_move_files returns its aggregate *)
(* without errors and with every matched file in one of its lists, having  *)
(* matched K files of which C had their name taken                         *)
(* in the destination directory when the call was issued, moved_files has  *)
(* K - C entries and renamed_files has C, every entry of either list holds *)
(* a file at the path it reports, and the C files that were in the way are *)
(* where and what they were.                                               *)
(***************************************************************************)
C11_BulkCollisionCounts ==
    (/\ res.status = "bulk"
     /\ bulk.errors = <<>>
     /\ Len(bulk.moved_files) + Len(bulk.renamed_files) = bulk.matched) =>
        /\ Len(bulk.moved_files) = bulk.matched - bulk.collisions
        /\ Len(bulk.renamed_files) = bulk.collisions
        /\ \A i \in DOMAIN bulk.moved_files :
              is_file(fs, bulk.moved_files[i].destination.parts)
        /\ \A i \in DOMAIN bulk.renamed_files :
              is_file(fs, Root \o bulk.renamed_files[i].actual)
        /\ \A q \in bulk.collided : q \in DOMAIN fs /\ fs[q] = bulk.before[q]

(***************************************************************************)
(* C12  Bulk partial-failure isolation.  A matched file whose move fails   *)
(* gets one entry in errors; that step leaves the two other lists and the  *)
(* result alone, takes the file off the pending matches and keeps the loop *)
(* running over the matches and patterns that remain; the aggregate is     *)
(* returned only when no match and no pattern is left.                     *)
(***************************************************************************)
FailedItem(q) ==
    /\ pc = "item"
    /\ q \in bulk.pending
    /\ bulk'.pending = bulk.pending \ {q}
    /\ is_file(fs, q)
    /\ fs' = fs

C12_BulkIsolation ==
    /\ [](res.status = "bulk" => bulk.pending = {} /\ bulk.patterns = <<>>)
    /\ [][\A q \in bulk.pending : FailedItem(q) =>
            /\ Len(bulk'.errors) = Len(bulk.errors) + 1
            /\ Last(bulk'.errors).file = Rel(relative_to(q, Root))
            /\ bulk'.moved_files = bulk.moved_files
            /\ bulk'.renamed_files = bulk.renamed_files
            /\ res' = res
            /\ pc' \in {"item", "glob"}
            /\ bulk'.patterns = IF bulk'.pending = {} THEN Tail(bulk.patterns)
                                                     ELSE bulk.patterns]_vars

C12_Witness ==
    /\ pc = "item"
    /\ Len(bulk.errors) = 1
    /\ bulk.errors[1].error = "destination_exists"
    /\ bulk.moved_files = <<>>
    /\ bulk.pending # {}

(***************************************************************************)
(* C13  Bulk never uses strict mode.  No matched file of a bulk_move_files *)
(* call is moved with auto_rename = False, and none ends in errors for its *)
(* name being taken in the destination directory.                          *)
(***************************************************************************)
C13_BulkNeverStrict ==
    \A i \in DOMAIN bulk.errors : bulk.errors[i].error # "destination_exists"

(***************************************************************************)
(* C14  First free counter.  Whenever a move or a preview has a conflict   *)
(* resolved, the alternate name lies in the parent directory of the        *)
(* target and is "stem (k)suffix" for the least k, from 1 up to the        *)
(* counter limit, whose path did not exist; when every one of them exists  *)
(* it is the timestamp name "stem_<seconds>suffix".                        *)
(***************************************************************************)
C14_FirstFreeCounter ==
    [][(/\ Called(Moves \cup {"get_move_preview"})
        /\ res'.status \in {"success", "preview"}
        /\ res'.renamed)
       => LET target == DestinationOf(op').path
              final == Root \o res'.final_path
              free == {k \in 1..CounterLimit : ~exists(fs, Candidate(target, k))}
          IN  /\ Front(final) = Front(target)
              /\ free # {} =>
                    \E k \in free :
                        /\ final = Candidate(target, k)
                        /\ \A j \in 1..(k - 1) : j \notin free
              /\ free = {} => final = Fallback(target, clock)]_vars

C14_Witness ==
    /\ op.name \in Moves \cup {"get_move_preview"}
    /\ res.renamed
    /\ res.final_path = <<D, <<"a", Ctr(2), ".", "t">>>>
    /\ exists(fs, <<R, D, <<"a", Ctr(1), ".", "t">>>>)

(***************************************************************************)
(* C15  create_directory is create-only.  On a path under Root that does   *)
(* not exist and whose nearest existing ancestor is a directory, the call  *)
(* succeeds and adds exactly the missing levels, all directories; on a     *)
(* path that exists, as a file or as a directory, it returns the           *)
(* already-exists error and changes nothing; the same call issued again    *)
(* after a success fails and changes nothing.                              *)
(***************************************************************************)
Prefixes(p) == {SubSeq(p, 1, n) : n \in 0..Len(p)}
Missing(f, p) == {q \in Prefixes(p) : q \notin DOMAIN f}
Creatable(f, p) ==
    \E q \in Prefixes(p) :
        /\ is_dir(f, q)
        /\ Missing(f, p) = {x \in Prefixes(p) : Len(x) > Len(q)}

C15_CreateOnly ==
    [][Called({"create_directory"}) =>
          LET target == SourceOf(op')
          IN  /\ (target.ok /\ exists(fs, target.path)) =>
                    res' = Error("already_exists") /\ fs' = fs
              /\ (target.ok /\ ~exists(fs, target.path) /\ Creatable(fs, target.path)) =>
                    /\ res' = Success
                    /\ fs' = fs @@ [q \in Missing(fs, target.path) |-> DirEntry]
              /\ (op.name = "create_directory" /\ res = Success /\ op'.source = op.source) =>
                    res'.status = "error" /\ fs' = fs]_vars

C15_Witness ==
    /\ op.name = "create_directory"
    /\ op.source = Rel(<<X, D>>)
    /\ res = Error("already_exists")
    /\ is_dir(fs, <<R, X>>)
    /\ is_dir(fs, <<R, X, D>>)

(***************************************************************************)
(* C16  Source checks.  move_file and move_directory on a source that does *)
(* not exist, move_file on a directory and move_directory on a file each   *)
(* return an error and change nothing; with a destination under Root the   *)
(* error is the source-not-found error, respectively the kind-mismatch     *)
(* error of the entry point.                                               *)
(***************************************************************************)
C16_SourceChecks ==
    [][Called(Moves) =>
          LET src == SourceOf(op')
              dst == DestinationOf(op')
          IN  /\ (src.ok /\ ~exists(fs, src.path)) =>
                    /\ res'.status = "error" /\ fs' = fs
                    /\ dst.ok => res' = Error("source_missing")
              /\ (src.ok /\ op'.name = "move_file" /\ is_dir(fs, src.path)) =>
                    /\ res'.status = "error" /\ fs' = fs
                    /\ dst.ok => res' = Error("use_move_directory")
              /\ (src.ok /\ op'.name = "move_directory"
                         /\ exists(fs, src.path) /\ ~is_dir(fs, src.path)) =>
                    /\ res'.status = "error" /\ fs' = fs
                    /\ dst.ok => res' = Error("use_move_file")]_vars

C16_Witness ==
    /\ op.name = "move_directory"
    /\ op.source = Rel(<<A_T>>)
    /\ is_file(fs, <<R, A_T>>)
    /\ res = Error("use_move_file")

(***************************************************************************)
(* C17  Move outcome reporting.  Every move that bulk_move_files reports   *)
(* as done is reported with a final path relative to Root: the destination *)
(* of a moved_files entry and the actual path of a renamed_files entry;    *)
(* an entry is in renamed_files exactly when its final path is not the     *)
(* intended one.                                                           *)
(***************************************************************************)
C17_OutcomeReporting ==
    /\ \A i \in DOMAIN bulk.renamed_files :
          Root \o bulk.renamed_files[i].actual # bulk.renamed_files[i].intended.parts
    /\ \A i \in DOMAIN bulk.moved_files :
          ~bulk.moved_files[i].destination.abs

(* the reply reports an error: lines 454 and 471 *)
ReportedAsError == res.report \in {"[ERROR]", "Error processing request"}

(* C18: a reply of process_user_input to an executed action reports an     *)
(* error exactly when the outcome of the operation carries one: the list,  *)
(* the info, the preview, the aggregate of a bulk move and the success     *)
(* messages are reported as successes, never as errors.                    *)
C18_OutcomeNormalization ==
    (pc = "idle" /\ res.status = "reply" /\ calls # <<>>)
        => (ReportedAsError <=> res.outcome.status = "error")

(***************************************************************************)
(* Well-formed objects, by construction: a pair of braces around members   *)
(* separated by commas, a member a scalar member or a key and an object.   *)
(***************************************************************************)
RECURSIVE MemberLists(_, _)
MemberLists(member, n) ==
    IF n <= 0 THEN {}
    ELSE LET fit == {m \in member : Len(m) <= n}
         IN  fit \cup UNION {{m \o <<Comma>> \o l : l \in MemberLists(member, n - Len(m) - 1)} :
                             m \in fit}

RECURSIVE Objects(_)
Objects(depth) ==
    IF depth = 0 THEN {<<LB, RB>>}
    ELSE LET member == {<<p>> : p \in TextTokens \cap DOMAIN Pairs}
                       \cup {<<k>> \o o : k \in TextTokens \cap DOMAIN ObjectKeys,
                                          o \in Objects(depth - 1)}
         IN  {<<LB, RB>>} \cup {<<LB>> \o l \o <<RB>> : l \in MemberLists(member, MaxText - 2)}

WellFormed == Objects(MaxText \div 2)

(* the braces open at position i of a text *)
Depth(text, i) ==
    Cardinality({j \in 1..(i - 1) : text[j] = LB})
    - Cardinality({j \in 1..(i - 1) : text[j] = RB})

(* the members of the outermost object of a span, and their keys *)
TopLevel(span) ==
    {i \in DOMAIN span : Depth(span, i) = 1
                         /\ span[i] \in DOMAIN Pairs \cup DOMAIN ObjectKeys}

KeyAt(span, i) ==
    IF span[i] \in DOMAIN Pairs THEN Pairs[span[i]].key ELSE ObjectKeys[span[i]]

(* the object is the span's: the keys of its members, and for each key the *)
(* value of the last member with it                                        *)
Decodes(object, span) ==
    /\ DOMAIN object = {KeyAt(span, i) : i \in TopLevel(span)}
    /\ \A i \in TopLevel(span) :
          (/\ span[i] \in DOMAIN Pairs
           /\ \A j \in TopLevel(span) : KeyAt(span, j) = KeyAt(span, i) => j <= i)
             => object[KeyAt(span, i)] = Pairs[span[i]].value

(* C19: the span from the first "{" to the last "}" of the answer, when it *)
(* is a well-formed object, is returned as the action and the text before  *)
(* and after it, stripped, as the conversation; when there is no such span *)
(* or it is not well formed, no action is returned, nothing is executed    *)
(* and the whole stripped text is the conversation.                        *)
C19_DescriptorExtraction ==
    op.name = "process_user_input" =>
        LET text == strip(op.llm_response)
            opens == {i \in DOMAIN text : text[i] = LB}
            closes == {i \in DOMAIN text : text[i] = RB}
            spans == {s \in opens \X closes :
                         /\ s[1] < s[2]
                         /\ \A i \in opens : s[1] <= i
                         /\ \A j \in closes : j <= s[2]}
            object(s) == SelectSeq(SubSeq(text, s[1], s[2]), NotBlank)
        IN  IF \E s \in spans : object(s) \in WellFormed
            THEN \A s \in spans :
                    /\ op.found
                    /\ Decodes(op.action_data, SubSeq(text, s[1], s[2]))
                    /\ op.conversation = strip(SubSeq(text, 1, s[1] - 1)
                                               \o SubSeq(text, s[2] + 1, Len(text)))
                    /\ res.conversation = op.conversation
            ELSE /\ ~op.found
                 /\ op.conversation = text
                 /\ res = Reply("", NoResult, text)
                 /\ calls = <<>>
                 /\ fs = PlainTree

(* a descriptor between two words, found and executed *)
C19_Witness ==
    /\ op.name = "process_user_input"
    /\ op.found
    /\ op.action = "list_directory"
    /\ op.conversation = <<Word, Word>>
    /\ calls # <<>>
    /\ res.report = "Directory contents"

(* C20: whenever validate_action or validate_root_path returns False, a    *)
(* security event has been logged during the call.                         *)
C20_RejectionsAudited ==
    (res.status = "verdict" /\ ~res.accepted) => res.events # <<>>

(***************************************************************************)
(* The screening of the parameters.                                        *)
(***************************************************************************)
Relocations == {"move_file", "move_directory", "rename_file"}

(* a string parameter of the call matches the denylist *)
Denylisted(parameters) ==
    \E key \in DOMAIN parameters \cap StringKeys :
        HasTraversal(parameters[key]) \/ HasShellCharacter(parameters[key])
        \/ HasCommandWord(parameters[key])

(* a destination or new_name of the call looks like a system file *)
AnyProtected(parameters) ==
    \E key \in DOMAIN parameters \cap {"destination", "new_name"} :
        is_system_file(parameters[key])

(* the destination the validator looks at: destination, or new_name when   *)
(* there is no destination or it is empty                                  *)
Supplied(parameters, key) == key \in DOMAIN parameters /\ parameters[key] # Rel(<<>>)

Protected(parameters) ==
    IF Supplied(parameters, "destination") THEN is_system_file(parameters.destination)
    ELSE Supplied(parameters, "new_name") /\ is_system_file(parameters.new_name)

Complete(parameters) ==
    /\ Supplied(parameters, "source") \/ Supplied(parameters, "old_name")
    /\ Supplied(parameters, "destination") \/ Supplied(parameters, "new_name")

(* C21, as stated: an allowlisted action is rejected when a string         *)
(* parameter matches the denylist, or, for a relocation, when its          *)
(* destination or new_name looks like a system file; it is accepted when   *)
(* neither is the case.                                                    *)
C21_ParameterScreening ==
    (res.status = "verdict" /\ op.name = "validate_action"
     /\ op.action_data.action \in allowed_actions)
        => LET action == op.action_data.action
               parameters == op.action_data.parameters
           IN  res.accepted <=>
                   ~(\/ Denylisted(parameters)
                     \/ action \in Relocations /\ AnyProtected(parameters))

(* C21, amended: an allowlisted action is rejected when a string parameter *)
(* matches the denylist, or, for a relocation, when the source or the      *)
(* destination is missing or the destination the validator looks at        *)
(* (destination, else new_name) looks like a system file; it is accepted   *)
(* otherwise.                                                              *)
C21_ParameterScreeningAmended ==
    (res.status = "verdict" /\ op.name = "validate_action"
     /\ op.action_data.action \in allowed_actions)
        => LET action == op.action_data.action
               parameters == op.action_data.parameters
           IN  res.accepted <=>
                   ~(\/ Denylisted(parameters)
                     \/ action \in Relocations
                        /\ (~Complete(parameters) \/ Protected(parameters)))

(* a relocation with harmless strings, rejected for its destination *)
C21_Witness ==
    /\ op.name = "validate_action"
    /\ op.action_data.action \in Relocations
    /\ ~Denylisted(op.action_data.parameters)
    /\ Protected(op.action_data.parameters)
    /\ res = Verdict(FALSE, <<"SYSTEM_FILE_MODIFICATION_ATTEMPT">>)

(* C22: when another process changes the tree between the checks of        *)
(* move_file, move_directory, rename_file or remove_empty_directory and    *)
(* its mutation, the call still returns a result, never raises, and when   *)
(* the source (for remove_empty_directory the directory) has vanished or   *)
(* the directory is no longer empty the result is an ordinary error.       *)
C22_RaceTolerance ==
    (pc = "idle" /\ op.name # "none")
        => /\ res.status \in {"error", "success"}
           /\ (op.src_path \in op.vanished => res.status = "error")
           /\ (op.name = "remove_empty_directory" /\ op.appeared # {}
               /\ op.appeared \subseteq {Append(op.src_path, X)}
                  => res.status = "error")

(* the source vanished after the checks and the call returned an error *)
C22_Witness ==
    /\ pc = "idle"
    /\ op.name \in {"move_file", "rename_file", "remove_empty_directory"}
    /\ op.src_path \in op.vanished
    /\ res = Error("exception")

(***************************************************************************)
(* Relocations named through symbolic links: the calls of move_file,       *)
(* move_directory and rename_file on trees with and without links.         *)
(***************************************************************************)
LinkSources == {Rel(<<A_T>>), Rel(<<M_T>>), Rel(<<D>>)}
LinkDestinations == {Rel(<<C_T>>), Rel(<<X, D>>), Rel(<<D, A_T>>), Rel(<<D, X, D>>)}

InitLinks == InitWith({PlainTree, LinkedTree})

NextLinks ==
    \/ \E s \in LinkSources, d \in LinkDestinations, a \in BOOLEAN : MoveFile(s, d, a)
    \/ \E s \in LinkSources, d \in LinkDestinations, a \in BOOLEAN : MoveDirectory(s, d, a)
    \/ \E s \in LinkSources, d \in LinkDestinations : RenameFile(s, d)

SpecLinks == InitLinks /\ [][NextLinks]_vars

(* the path a call names, as written: below Root unless absolute *)
Written(ps) == IF ps.abs THEN ParseParts(ps.parts) ELSE Root \o ParseParts(ps.parts)

(* the source exists and is of the kind the entry point takes; the         *)
(* destination is a path of the sandbox at which nothing exists            *)
Relocatable(c) ==
    /\ SourceOf(c).ok
    /\ exists(fs, SourceOf(c).path)
    /\ c.name = "move_file" => ~is_dir(fs, SourceOf(c).path)
    /\ c.name = "move_directory" => is_dir(fs, SourceOf(c).path)
    /\ DestinationOf(c).ok
    /\ ~exists(fs, DestinationOf(c).path)

(* the directories between Root and p that are not there yet *)
MissingParents(f, p) == {SubSeq(p, 1, i) : i \in 1..(Len(p) - 1)} \ DOMAIN f

(* the step took what lay at S to Dst and changed nothing else *)
Relocated(S, Dst) ==
    /\ S \notin DOMAIN fs'
    /\ Dst \in DOMAIN fs'
    /\ Subtree(fs', Dst) = Subtree(fs, resolve(fs, S))
    /\ \A q \in DOMAIN fs \ Under(fs, S) : q \in DOMAIN fs' /\ fs'[q] = fs[q]
    /\ DOMAIN fs' \ DOMAIN fs \subseteq Under(fs', Dst) \cup MissingParents(fs, Dst)

(* C23: when the source exists, has the right kind and the destination     *)
(* path is unused, a successful move_file, move_directory or rename_file   *)
(* leaves no entry at the source path, leaves the source's content (for a  *)
(* directory its whole subtree) at the destination path, and changes no    *)
(* other entry that existed under Root; only missing intermediate          *)
(* directories of the destination are created.                             *)
C23_RelocationPostcondition ==
    [][(/\ Called(Relocations)
        /\ Relocatable(op')
        /\ res'.status = "success")
       => Relocated(Written(op'.source), DestinationOf(op').path)]_vars

(* the same for the calls whose source is named by its own path, not       *)
(* through a symbolic link                                                 *)
C23_DirectRelocation ==
    [][(/\ Called(Relocations)
        /\ Relocatable(op')
        /\ SourceOf(op').path = Written(op'.source)
        /\ res'.status = "success")
       => Relocated(Written(op'.source), DestinationOf(op').path)]_vars

(* the match the loop body has just been run on *)
Handled == bulk.pending \ bulk'.pending

Lists(b) == <<b.moved_files, b.renamed_files, b.errors>>

Directories(f) == {q \in DOMAIN f : IsPrefix(Root, q) /\ f[q].kind = "dir"}

Placed(kind, name, k) ==
    IF kind = "move_file" /\ HasSuffix(name)
    THEN stem(name) \o <<Ctr(k)>> \o suffix(name)
    ELSE name \o <<Ctr(k)>>

(* C25: when auto-rename resolves a conflict with a counter, the " (N)"    *)
(* suffix stands before the extension for a file target, and after the     *)
(* full name for a target without extension and for every directory        *)
(* target, also one whose name contains a dot.                             *)
C25_SuffixPlacement ==
    [][(/\ Called(Moves)
        /\ res'.status = "success"
        /\ res'.renamed
        /\ Root \o res'.final_path # Fallback(DestinationOf(op').path, clock))
       => LET Dst == DestinationOf(op').path
              final == Root \o res'.final_path
          IN  /\ Front(final) = Front(Dst)
              /\ \E k \in 1..CounterLimit :
                    Last(final) = Placed(op'.name, Last(Dst), k)]_vars

(* the call before this step was a preview that returned a prediction, and *)
(* this step is the move of the same source to the same destination        *)
FollowsPreview ==
    /\ op.name = "get_move_preview"
    /\ res.status = "preview"
    /\ Called(Moves)
    /\ op'.source = op.source
    /\ op'.destination = op.destination
    /\ op'.auto_rename

(* C26: get_move_preview(S, D) changes nothing under Root and reports a    *)
(* conflict exactly when D exists; the move of S to D that follows it in   *)
(* the same tree, when it succeeds, ends at the path the preview gave as   *)
(* auto_rename_to if a conflict was reported, and is not renamed if none   *)
(* was.                                                                    *)
C26_PreviewFaithful ==
    [][/\ Called({"get_move_preview"}) => fs' = fs
       /\ (Called({"get_move_preview"}) /\ res'.status = "preview")
            => (res'.renamed <=> exists(fs, DestinationOf(op').path))
       /\ (FollowsPreview /\ res'.status = "success")
            => IF res.renamed
               THEN res'.renamed /\ res'.final_path = res.final_path
               ELSE ~res'.renamed]_vars

(***************************************************************************)
(* Calls that name Root itself, on a sandbox that holds next to nothing.   *)
(***************************************************************************)
BareTree == Outside @@ (<<R, E>> :> DirEntry)

RootNames == {Rel(<<>>), Rel(<<Dot>>), Abs(Root), Rel(<<E, DotDot>>)}
RootTargets == RootNames \cup {Rel(<<E>>), Rel(<<X>>), Rel(<<E, X>>)}

InitRoot == InitWith({BareTree, PlainTree})

NextRoot ==
    \/ \E s \in RootTargets, d \in RootTargets, a \in BOOLEAN : MoveFile(s, d, a)
    \/ \E s \in RootTargets, d \in RootTargets, a \in BOOLEAN : MoveDirectory(s, d, a)
    \/ \E s \in RootTargets, d \in RootTargets : RenameFile(s, d)
    \/ \E p \in RootTargets : CreateDirectory(p)
    \/ \E p \in RootTargets : RemoveEmptyDirectory(p)

SpecRoot == InitRoot /\ [][NextRoot]_vars

(* C27: after any sequence of operations, whatever paths they are given    *)
(* (the empty path, ".", Root's own absolute path), Root still exists      *)
(* where it was and is a directory.                                        *)
C27_RootPreserved == Root \in DOMAIN fs /\ fs[Root].kind = "dir"

Mutators ==
    {"move_file", "move_directory", "rename_file", "create_directory",
     "remove_empty_directory", "bulk_move_files"}

(* C28: a call of move_file, move_directory, rename_file,                  *)
(* create_directory, remove_empty_directory or bulk_move_files that        *)
(* returns a top-level error leaves the tree under Root as it was before   *)
(* the call: no directory created, no entry moved, renamed or removed.     *)
C28_ErrorsLeaveTree ==
    [][/\ (Called(Mutators) /\ pc' = "idle" /\ res'.status = "error") => fs' = fs
       /\ (pc # "idle" /\ pc' = "idle" /\ op.name = "bulk_move_files"
           /\ res'.status = "error") => fs' = bulk.before]_vars

(***************************************************************************)
(* A name the core generated, handed back to the validator: a move that    *)
(* was renamed, then a request that names its final_path.                  *)
(***************************************************************************)
(* requests for the entry a renamed move returned, all else harmless *)
Requests(r) ==
    IF r.status = "success" /\ r.renamed
    THEN {Descriptor(action, [source |-> Rel(r.final_path), destination |-> Rel(<<X>>)]) :
              action \in Moves}
         \cup {Descriptor(action, [source |-> Rel(<<B_T>>), destination |-> Rel(r.final_path)]) :
              action \in Moves}
         \cup {Descriptor("rename_file", [old_name |-> Rel(r.final_path), new_name |-> Rel(<<X>>)]),
               Descriptor("rename_file", [old_name |-> Rel(<<B_T>>), new_name |-> Rel(r.final_path)])}
    ELSE {}

InitNames == InitWith({PlainTree, CrowdedTree})

NextNames ==
    \/ \E s \in FileSources, d \in Destinations, a \in BOOLEAN : MoveFile(s, d, a)
    \/ \E s \in DirectorySources, d \in Destinations, a \in BOOLEAN : MoveDirectory(s, d, a)
    \/ \E request \in Requests(res) : ValidateAction(request)
    \/ Tick

SpecNames == InitNames /\ [][NextNames]_vars

(* C29: a final path that conflict auto-rename produced, a " (k)" name or  *)
(* the timestamp name, is accepted by validate_action as the source or     *)
(* destination of a move_file, move_directory or rename_file request       *)
(* whose other parameters are harmless.                                    *)
C29_GeneratedNamesUsable ==
    (op.name = "validate_action") => res.accepted

(* the same for the timestamp names alone *)
C29_TimestampNamesUsable ==
    (/\ op.name = "validate_action"
     /\ ~\E key \in DOMAIN op.action_data.parameters :
            HasShellCharacter(op.action_data.parameters[key]))
        => res.accepted

(* the files directly inside directory p *)
Residents(f, p) == {q \in iterdir(f, p) : f[q].kind = "file"}

(* C30: a file that lay directly in the destination directory when         *)
(* bulk_move_files was called has the same path and content when the call  *)
(* returns its aggregate, for every pattern list and destination, also     *)
(* when the file itself matches a pattern and when a pattern is repeated.  *)
C30_BulkKeepsResidents ==
    res.status = "bulk" =>
        \A q \in Residents(bulk.before, bulk.dst) :
            q \in DOMAIN fs /\ fs[q] = bulk.before[q]

====
